---- MODULE Spec2Model ----
(***************************************************************************)
(* dfuse start-up (src/client/dfuse/dfuse_main.c): option parsing, the     *)
(* fork/pipe/SIGCHLD handshake of dfuse_bg and dfuse_send_to_fg, the       *)
(* pool/container identity resolution of main, and the FUSE session        *)
(* life cycle of dfuse_launch_fuse.                                         *)
(*                                                                         *)
(* Two processes: "parent" is the process the user started; "child" is     *)
(* the process fork() creates in dfuse_bg.  main's locals are those of the *)
(* one process that continues main after dfuse_bg.                          *)
(*                                                                         *)
(* Three more programs of the repository have their own variables and     *)
(* their own specification, each leaving the others' state alone:         *)
(* test_group (src/test/test_group.c, TgSpec), the dfs_sys calls of the    *)
(* unit tests (src/tests/suite/dfs_sys_unit_test.c, SysSpec) and the       *)
(* default pool properties (src/pool/srv_layout.c, PropSpec).              *)
(***************************************************************************)
EXTENDS Integers, Sequences, FiniteSets, TLC

\* ---------------------------------------------------------------- bounds
\* options given on the command line
MaxOpts == 3
\* largest value given to -t
MaxThreadArg == 3
\* largest CPU_COUNT of the affinity mask
MaxCpu == 2
\* containers open against the pool at one time
MaxConts == 2
\* test_group: largest value given to --ctx_num
MaxCtx == 2
\* test_group: largest rank of the process in its own group
MaxRank == 1
\* test_group: largest size of the attached group
MaxGroup == 2
\* test_group: check-in requests other processes send to a service
MaxCheckins == 2
\* dfs_sys unit tests: largest buf_size
MaxBuf == 2
\* dfs_sys unit tests: largest byte value write_buf is filled with
MaxByte == 2
\* srv_layout: allocations made during one run
MaxAllocs == 8

\* ------------------------------------------------------------- constants
\* include/daos_errno.h (values of the DER_* codes used by dfuse_main.c)
DER_SUCCESS == 0
DER_ERR_GURT_BASE == 1000
DER_INVAL == 1003
DER_NONEXIST == 1005
DER_NOMEM == 1009
DER_MISC == 1025
DER_IO == 2001
\* <errno.h>
EPERM == 1
ENOENT == 2
EINVAL == 22
EINTR == 4
EIO == 5
ENODATA == 61
ENOTSUP == 95
\* sizeof(int): the size of the handshake message
SizeofRc == 4

NULL == "<null>"
\* dfp and dfs when no pool is connected, no container open
NoHandle == 0 - 1
Procs == {"parent", "child"}

\* the nil uuid ({0}) and the uuids of the model
NilUuid == 0
Uuids == 0..2

\* The canonical text of a uuid, as uuid_unparse would print it.
UuidText(u) ==
    CASE u = 0 -> "00000000-0000-0000-0000-000000000000"
      [] u = 1 -> "00000000-0000-0000-0000-000000000001"
      [] OTHER -> "00000000-0000-0000-0000-000000000002"

\* uuid_parse(in, uu): 0 and the uuid when `in` is the text of a uuid, -1
\* (uu untouched) otherwise.
uuid_parse(in) ==
    IF \E u \in Uuids : UuidText(u) = in
    THEN [rc |-> 0, uu |-> CHOOSE u \in Uuids : UuidText(u) = in]
    ELSE [rc |-> -1, uu |-> NilUuid]

\* Arguments the model gives to --pool, --container, -m and --path.
PoolArgs == {UuidText(1), "tank"}
ContArgs == {UuidText(1), "data"}
MountArgs == {"/mnt"}
PathArgs == {"/mnt", "/a"}
ThreadArgs == 0..MaxThreadArg
CpuCounts == 1..MaxCpu

\* The storage system the model talks to: the pool labelled "tank" is pool
\* 2, the container labelled "data" is container 2 (of any pool).
PoolOfLabel(label) == 2
ContOfLabel(label) == 2

\* The namespace attributes a path carries when duns_resolve_path succeeds.
DunsAttr(p) ==
    IF p = "/mnt" THEN [da_puuid |-> 2, da_cuuid |-> 2]
    ELSE [da_puuid |-> 1, da_cuuid |-> 1]

\* Results of duns_resolve_path; Unread: the path was not resolved yet.
Unread == 0 - 1
DunsResults == {0, ENOENT, ENODATA, ENOTSUP, EIO}

\* daos_errno2der (include/daos/common.h)
daos_errno2der(err) ==
    CASE err = 0 -> -DER_SUCCESS
      [] err = ENOENT -> -DER_NONEXIST
      [] err = EIO -> -DER_IO
      [] OTHER -> -DER_MISC

\* The exit status a process that calls exit(v), or returns v from main,
\* is seen to have: the low 8 bits of v.
ExitStatus(v) == v % 256

\* Not exited (yet).
Running == 0 - 1

\* dfs_sys unit tests: the entries of create_simple_tree (lines 227-230).
SysPaths == {"/dir1", "/dir1/file1", "/dir1/sym1"}
\* No dfs_sys call was made yet.
NoCall == [op |-> "none", path |-> NULL, flags |-> 0, kind |-> "none"]
\* srv_layout.c: the NULL pointer; allocations are numbered from 1.
NullPtr == 0

\* test_group, line 72: the first room number.
FirstRoom == 1082
\* test_group: the indexes of crt_ctx[], tid[] and thread_id[].
Ctxs == 0..(MaxCtx - 1)
\* test_group: the opcodes of the two RPCs.
Opcs == {"ECHO_OPC_CHECKIN", "ECHO_OPC_SHUTDOWN"}

VARIABLES
    pc,              \* [Procs -> label]: where each process is
    nopts,           \* options getopt_long has returned
    di_threaded, di_thread_count, have_thread_count, di_foreground,
    di_mountpoint, pool_name, cont_name, path,
    rc,              \* main's rc
    bg_fd,           \* [Procs -> 0 | 1]: the static bg_fd (1: di_spipe[1])
    di_spipe,        \* the pipe exists
    pipe,            \* what the pipe holds: a sequence of <<bytes, value>>
    sig,             \* SIGCHLD in the parent: blocked, handler, pending
    err,             \* the parent's errno after pselect
    fd_isset,        \* FD_ISSET(di_spipe[0], &read_set) after pselect
    exit_status,     \* [Procs -> Running | 0..255]
    written,         \* [Procs -> Seq(<<ret, value>>)]: the write() calls made
                     \* on the handshake, with what each returned
    send_ret,        \* what the last dfuse_send_to_fg returned
    cwd, stdio,      \* the continuing process's directory and std streams
    xattr,           \* [PathArgs -> Unread | DunsResults]
    pool_uuid, cont_uuid,
    dfp, pool_ref,   \* the connected pool (its uuid, or NoHandle) and its refs
    dfs, dfs_ops,    \* the open container and its operation table
    pool_entry,      \* the pool dfp is in the pool table
    nconts,          \* container handles open against the pool dfp
    daos_inited,     \* [Procs -> BOOLEAN]: daos_init succeeded, no fini yet
    fs_inited,       \* dfuse_fs_init succeeded
    di_session,      \* "null", "new", "mounted", "unmounted", "destroyed"
    nsessions,       \* fuse_session_new calls that returned a session
    launched,        \* what dfuse_launch_fuse returned: "no", "true", "false"
    loop_rc,         \* what ll_loop_fn returned
    loops,           \* calls of ll_loop_fn that returned
    unmounts,        \* calls of fuse_session_unmount
    \* test_group (src/test/test_group.c)
    is_service, should_attach, myrank, ctx_num,   \* the command line, the rank
    target_group_size,
    g_shutdown, g_complete, g_roomno,
    g_token_to_proceed,   \* the semaphore's count
    tg_pc,           \* where the main thread of test_group is
    tg_ii,           \* the loop counter ii (i in test_group_init)
    thr_pc,          \* [Ctxs -> label]: where each progress thread is
    thr_room,        \* [Ctxs -> Int]: the value of g_roomno a handler loaded
    cb_pending,      \* [Opcs -> Nat]: completions waiting on crt_ctx[0]
    req_pending,     \* [Ctxs -> Nat]: check-in requests waiting on a context
    shutdown_req,    \* the shutdown request: "none", "pending", "handled"
    rooms,           \* the room_no of every check-in reply sent, in order
    \* the dfs_sys unit tests (src/tests/suite/dfs_sys_unit_test.c)
    buf_size,        \* read_write's buf_size
    write_buf,       \* the bytes of write_buf
    entries,         \* the paths that exist in the container
    perm,            \* [SysPaths -> BOOLEAN]: the owner may read and write
    fdata,           \* the bytes of /dir1/file1
    obj,             \* the entry the open object refers to, or NULL
    sys_call,        \* the last dfs_sys call: [op, path, flags, kind]
    sys_rc,          \* what it returned
    got_size,        \* its in/out size (got_size, buf_size), -1: all ones
    read_buf,        \* the bytes it returned
    st_fmt,          \* st_mode & S_IFMT, or mode & S_IFMT of the object
    \* the default pool properties (src/pool/srv_layout.c)
    acl_ptr,         \* dpe_val_ptr of the DAOS_PROP_PO_ACL entry
    policy_ptr,      \* dpe_val_ptr of the DAOS_PROP_PO_POLICY entry
    heap,            \* every allocation made, in order, with its content
                     \* and the number of times it was freed
    prop_pc,         \* "start", "inited" (after init), "finied" (after fini)
    prop_rc          \* what the last ds_pool_prop_default_init returned

cfgvars == <<nopts, di_threaded, di_thread_count, have_thread_count,
             di_foreground, di_mountpoint, pool_name, cont_name, path>>
bgvars == <<bg_fd, di_spipe, pipe, sig, err, fd_isset, written, send_ret,
            cwd, stdio>>
idvars == <<xattr, pool_uuid, cont_uuid, dfp, pool_ref, dfs, dfs_ops,
            pool_entry, nconts>>
fusevars == <<di_session, nsessions, launched, loop_rc, loops, unmounts>>
dfusevars == <<pc, rc, exit_status, daos_inited, fs_inited, cfgvars, bgvars,
               idvars, fusevars>>
tgvars == <<is_service, should_attach, myrank, ctx_num, target_group_size,
            g_shutdown, g_complete, g_roomno, g_token_to_proceed, tg_pc,
            tg_ii, thr_pc, thr_room, cb_pending, req_pending, shutdown_req,
            rooms>>
sysvars == <<buf_size, write_buf, entries, perm, fdata,
             obj, sys_call, sys_rc, got_size, read_buf, st_fmt>>
propvars == <<acl_ptr, policy_ptr, heap, prop_pc, prop_rc>>
\* The state of the programs other than dfuse.
othervars == <<tgvars, sysvars, propvars>>
\* The state of the programs other than test_group.
nottg == <<dfusevars, sysvars, propvars>>
\* The state of the programs other than the dfs_sys unit tests.
notsys == <<dfusevars, tgvars, propvars>>
\* The state of the programs other than the pool service.
notprop == <<dfusevars, tgvars, sysvars>>
vars == <<dfusevars, othervars>>

\* main, lines 286-326: the state before the first getopt_long call.
DfuseInit ==
    /\ pc = [p \in Procs |-> IF p = "parent" THEN "getopt" ELSE "none"]
    /\ nopts = 0
    /\ di_threaded = TRUE
    /\ di_thread_count = 0
    /\ have_thread_count = FALSE
    /\ di_foreground = FALSE
    /\ di_mountpoint = NULL
    /\ pool_name = NULL
    /\ cont_name = NULL
    /\ path = NULL
    /\ rc = 0
    /\ bg_fd = [p \in Procs |-> 0]
    /\ di_spipe = FALSE
    /\ pipe = <<>>
    /\ sig = [blocked |-> FALSE, handler |-> FALSE, pending |-> FALSE]
    /\ err = 0
    /\ fd_isset = FALSE
    /\ exit_status = [p \in Procs |-> Running]
    /\ written = [p \in Procs |-> <<>>]
    /\ send_ret = 0
    /\ cwd = "start"
    /\ stdio = "tty"
    /\ xattr = [p \in PathArgs |-> Unread]
    /\ pool_uuid = NilUuid
    /\ cont_uuid = NilUuid
    /\ dfp = NoHandle
    /\ pool_ref = 0
    /\ dfs = NoHandle
    /\ dfs_ops = NULL
    /\ pool_entry = FALSE
    /\ nconts = 0
    /\ daos_inited = [p \in Procs |-> FALSE]
    /\ fs_inited = FALSE
    /\ di_session = "null"
    /\ nsessions = 0
    /\ launched = "no"
    /\ loop_rc = 0
    /\ loops = 0
    /\ unmounts = 0

\* test_group, lines 60-72: the statics of a process that runs as `service`,
\* `attach`, rank `rank`, with `n` contexts, before test_group_init.
TgStart(service, attach, rank, n) ==
    /\ is_service = service
    /\ should_attach = attach
    /\ myrank = rank
    /\ ctx_num = n
    /\ target_group_size = 0
    /\ g_shutdown = 0
    /\ g_complete = 0
    /\ g_roomno = FirstRoom
    /\ g_token_to_proceed = 0
    /\ tg_pc = "init"
    /\ tg_ii = 0
    /\ thr_pc = [t \in Ctxs |-> "none"]
    /\ thr_room = [t \in Ctxs |-> 0]
    /\ cb_pending = [o \in Opcs |-> 0]
    /\ req_pending = [t \in Ctxs |-> 0]
    /\ shutdown_req = "none"
    /\ rooms = <<>>

\* test_group, line 63: run without options (a client that does not attach,
\* one context).
TgDefault == TgStart(FALSE, FALSE, 0, 1)

\* dfs_sys_unit_test.c, lines 12-15, 494: the mounted, empty container
\* before a test function runs, with buf_size n and write_buf filled with v.
SysStart(n, v) ==
    /\ buf_size = n
    /\ write_buf = [i \in 1..n |-> v]
    /\ entries = {}
    /\ perm = [p \in SysPaths |-> FALSE]
    /\ fdata = <<>>
    /\ obj = NULL
    /\ sys_call = NoCall
    /\ sys_rc = 0
    /\ got_size = 0
    /\ read_buf = <<>>
    /\ st_fmt = 0

\* dfs_sys_unit_test.c, lines 494, 534: buf_size = 10, memset(.., 1, ..)
\* (the model writes one byte for ten).
SysDefault == SysStart(1, 1)

\* srv_layout.c, lines 39-75: the static initialisers (dpe_val_ptr = NULL).
PropStart ==
    /\ acl_ptr = NullPtr
    /\ policy_ptr = NullPtr
    /\ heap = <<>>
    /\ prop_pc = "start"
    /\ prop_rc = 0

Init == DfuseInit /\ TgDefault /\ SysDefault /\ PropStart

\* goto `label` with rc = v, in process p.
Goto(p, label, v) ==
    /\ pc' = [pc EXCEPT ![p] = label]
    /\ rc' = v

\* exit(v), or return v from main, in process p.  When the child ends, the
\* kernel raises SIGCHLD in a parent that still runs: it stays pending while
\* the parent blocks it or handles it, and is dropped when the parent
\* neither blocks nor handles it (the default action is to ignore it).
Exit(p, v) ==
    /\ pc' = [pc EXCEPT ![p] = "exited"]
    /\ exit_status' = [exit_status EXCEPT ![p] = ExitStatus(v)]

RaiseSigchld ==
    IF pc["parent"] # "exited" /\ (sig.blocked \/ sig.handler)
    THEN sig' = [sig EXCEPT !.pending = TRUE]
    ELSE sig' = sig

\* ------------------------------------------------------------------ main
\* main, lines 328-386: one getopt_long call and its switch case; -1 (no
\* option left) leaves the loop.  --sys-name, --disable-caching and
\* --disable-wb-cache set fields no step of the start-up reads.
GetOpt ==
    /\ pc["parent"] = "getopt"
    /\ \/ /\ pc' = [pc EXCEPT !["parent"] = "post_opts"]
          /\ UNCHANGED <<rc, cfgvars>>
       \/ /\ nopts < MaxOpts
          /\ nopts' = nopts + 1
          /\ \/ \E a \in PoolArgs :
                  /\ pool_name' = a
                  /\ UNCHANGED <<pc, rc, di_threaded, di_thread_count,
                                 have_thread_count, di_foreground,
                                 di_mountpoint, cont_name, path>>
             \/ \E a \in ContArgs :
                  /\ cont_name' = a
                  /\ UNCHANGED <<pc, rc, di_threaded, di_thread_count,
                                 have_thread_count, di_foreground,
                                 di_mountpoint, pool_name, path>>
             \/ \E a \in MountArgs :
                  /\ di_mountpoint' = a
                  /\ UNCHANGED <<pc, rc, di_threaded, di_thread_count,
                                 have_thread_count, di_foreground,
                                 pool_name, cont_name, path>>
             \/ \E a \in PathArgs :
                  /\ path' = a
                  /\ UNCHANGED <<pc, rc, di_threaded, di_thread_count,
                                 have_thread_count, di_foreground,
                                 di_mountpoint, pool_name, cont_name>>
             \/ /\ di_threaded' = FALSE
                /\ di_thread_count' = 2
                /\ UNCHANGED <<pc, rc, have_thread_count, di_foreground,
                               di_mountpoint, pool_name, cont_name, path>>
             \/ \E n \in ThreadArgs :
                  /\ di_thread_count' = n
                  /\ have_thread_count' = TRUE
                  /\ UNCHANGED <<pc, rc, di_threaded, di_foreground,
                                 di_mountpoint, pool_name, cont_name, path>>
             \/ /\ di_foreground' = TRUE
                /\ UNCHANGED <<pc, rc, di_threaded, di_thread_count,
                               have_thread_count, di_mountpoint, pool_name,
                               cont_name, path>>
             \/ \* -h, -v: rc = -DER_SUCCESS; '?': rc = -DER_INVAL
                \E v \in {-DER_SUCCESS, -DER_INVAL} :
                  /\ Goto("parent", "out", v)
                  /\ UNCHANGED <<di_threaded, di_thread_count,
                                 have_thread_count, di_foreground,
                                 di_mountpoint, pool_name, cont_name, path>>
             \/ \* --sys-name, --disable-caching, --disable-wb-cache
                UNCHANGED <<pc, rc, di_threaded, di_thread_count,
                            have_thread_count, di_foreground, di_mountpoint,
                            pool_name, cont_name, path>>
    /\ UNCHANGED <<exit_status, daos_inited, fs_inited, bgvars, idvars,
                   fusevars>>
    /\ UNCHANGED othervars

\* main, lines 388-398: PMIX_RANK forces the foreground; the mountpoint is
\* required.
PostOpts ==
    /\ pc["parent"] = "post_opts"
    /\ \E pmix \in BOOLEAN :
         di_foreground' = (di_foreground \/ pmix)
    /\ IF di_mountpoint = NULL
       THEN Goto("parent", "out", -DER_INVAL)
       ELSE Goto("parent", "affinity", rc)
    /\ UNCHANGED <<nopts, di_threaded, di_thread_count, have_thread_count,
                   di_mountpoint, pool_name, cont_name, path>>
    /\ UNCHANGED <<exit_status, daos_inited, fs_inited, bgvars, idvars,
                   fusevars>>
    /\ UNCHANGED othervars

\* main, lines 400-410: without -t, a threaded dfuse takes the CPU count of
\* its affinity mask; sched_getaffinity may fail.
Affinity ==
    /\ pc["parent"] = "affinity"
    /\ IF di_threaded /\ ~have_thread_count
       THEN \/ /\ Goto("parent", "out", -DER_INVAL)
               /\ UNCHANGED di_thread_count
            \/ \E n \in CpuCounts :
                 /\ di_thread_count' = n
                 /\ Goto("parent", "check_threads", 0)
       ELSE /\ Goto("parent", "check_threads", rc)
            /\ UNCHANGED di_thread_count
    /\ UNCHANGED <<nopts, di_threaded, have_thread_count, di_foreground,
                   di_mountpoint, pool_name, cont_name, path>>
    /\ UNCHANGED <<exit_status, daos_inited, fs_inited, bgvars, idvars,
                   fusevars>>
    /\ UNCHANGED othervars

TooFewThreadsBelow1(n) == n < 1

\* main, line 412: fewer than two threads.
TooFewThreads(n) == n < 2

ReservedNone(n) == n

\* main, line 418: one thread is reserved for the daos event queue.
Reserved(n) == n - 1

\* main, lines 412-420: the thread count check and the reservation.
CallsDfuseBgAlways == TRUE

\* main, line 420: dfuse_bg is called unless dfuse runs in the foreground.
CallsDfuseBg == ~di_foreground

ReserveThread ==
    /\ pc["parent"] = "check_threads"
    /\ IF TooFewThreads(di_thread_count)
       THEN /\ Goto("parent", "out", -DER_INVAL)
            /\ UNCHANGED di_thread_count
       ELSE /\ di_thread_count' = Reserved(di_thread_count)
            /\ Goto("parent", IF CallsDfuseBg THEN "bg_pipe" ELSE "check_cont",
                    rc)
    /\ UNCHANGED <<nopts, di_threaded, have_thread_count, di_foreground,
                   di_mountpoint, pool_name, cont_name, path>>
    /\ UNCHANGED <<exit_status, daos_inited, fs_inited, bgvars, idvars,
                   fusevars>>
    /\ UNCHANGED othervars

\* ------------------------------------------------------------- dfuse_bg
\* dfuse_bg, lines 101-107, and main, lines 422-425: pipe(), then SIGCHLD is
\* blocked.  dfuse_bg returns 1 when pipe() fails and main calls exit(2).
SigchldLeftUnblocked == FALSE

\* dfuse_bg, lines 105-107: sigprocmask(SIG_BLOCK, {SIGCHLD}).
SigchldBlocked == TRUE

BgPipe ==
    /\ pc["parent"] = "bg_pipe"
    /\ \/ /\ Exit("parent", 2)
          /\ UNCHANGED <<di_spipe, sig>>
       \/ /\ di_spipe' = TRUE
          /\ sig' = [sig EXCEPT !.blocked = SigchldBlocked]
          /\ pc' = [pc EXCEPT !["parent"] = "bg_fork"]
          /\ UNCHANGED exit_status
    /\ UNCHANGED <<rc, daos_inited, fs_inited, cfgvars, bg_fd, pipe, err,
                   fd_isset, written, send_ret, cwd, stdio, idvars, fusevars>>
    /\ UNCHANGED othervars

\* dfuse_bg, lines 109-116, and main, lines 421-425: fork().  On failure
\* dfuse_bg returns 1 and main calls exit(2).  The child keeps the write end
\* in bg_fd and returns 0 to main; the parent stays in dfuse_bg.
BgFork ==
    /\ pc["parent"] = "bg_fork"
    /\ \/ /\ Exit("parent", 2)
          /\ UNCHANGED <<bg_fd, rc>>
       \/ /\ pc' = [pc EXCEPT !["parent"] = "bg_sigaction",
                              !["child"] = "check_cont"]
          /\ bg_fd' = [bg_fd EXCEPT !["child"] = 1]
          /\ rc' = 0
          /\ UNCHANGED exit_status
    /\ UNCHANGED <<daos_inited, fs_inited, cfgvars, di_spipe, pipe, sig, err,
                   fd_isset, written, send_ret, cwd, stdio, idvars, fusevars>>
    /\ UNCHANGED othervars

HandlerNotInstalled == FALSE

\* dfuse_bg, lines 118-121: sigaction(SIGCHLD, &sa, NULL) with
\* sa.sa_handler = noop_handler.
HandlerInstalled == TRUE

\* dfuse_bg, lines 118-128: the parent installs noop_handler for SIGCHLD (a
\* SIGCHLD that is pending stays pending: the signal is blocked), sets the
\* read end in read_set and clears errno.
BgSigaction ==
    /\ pc["parent"] = "bg_sigaction"
    /\ sig' = [sig EXCEPT !.handler = HandlerInstalled]
    /\ fd_isset' = TRUE
    /\ err' = 0
    /\ pc' = [pc EXCEPT !["parent"] = "pselect_poll"]
    /\ UNCHANGED <<rc, exit_status, daos_inited, fs_inited, cfgvars, bg_fd,
                   di_spipe, pipe, written, send_ret, cwd, stdio, idvars,
                   fusevars>>
    /\ UNCHANGED othervars

\* dfuse_bg, lines 128-130: pselect(), with the empty signal mask in force
\* while it runs.  The kernel first polls the descriptor: when the pipe holds
\* data pselect returns 1 with the descriptor set in read_set and errno
\* unchanged (0), and the old mask is back before any handler ran.
PselectPoll ==
    /\ pc["parent"] = "pselect_poll"
    /\ IF pipe # <<>>
       THEN /\ fd_isset' = TRUE
            /\ err' = 0
            /\ pc' = [pc EXCEPT !["parent"] = "bg_result"]
       ELSE /\ pc' = [pc EXCEPT !["parent"] = "pselect_signal"]
            /\ UNCHANGED <<fd_isset, err>>
    /\ UNCHANGED <<rc, exit_status, daos_inited, fs_inited, cfgvars, bg_fd,
                   di_spipe, pipe, sig, written, send_ret, cwd, stdio,
                   idvars, fusevars>>
    /\ UNCHANGED othervars

\* dfuse_bg, line 129: no descriptor was ready when polled.  A SIGCHLD that
\* is pending is now delivered to noop_handler and pselect fails with
\* EINTR, read_set untouched; otherwise the parent sleeps.
PselectSignal ==
    /\ pc["parent"] = "pselect_signal"
    /\ IF sig.pending /\ sig.handler
       THEN /\ sig' = [sig EXCEPT !.pending = FALSE]
            /\ err' = EINTR
            /\ UNCHANGED fd_isset
            /\ pc' = [pc EXCEPT !["parent"] = "bg_result"]
       ELSE /\ pc' = [pc EXCEPT !["parent"] = "pselect_sleep"]
            /\ UNCHANGED <<sig, err>>
            /\ UNCHANGED fd_isset
    /\ UNCHANGED <<rc, exit_status, daos_inited, fs_inited, cfgvars, bg_fd,
                   di_spipe, pipe, written, send_ret, cwd, stdio, idvars,
                   fusevars>>
    /\ UNCHANGED othervars

\* dfuse_bg, line 129: the sleeping parent is woken by data in the pipe or
\* by a signal it handles, and polls again.
PselectWake ==
    /\ pc["parent"] = "pselect_sleep"
    /\ pipe # <<>> \/ (sig.pending /\ sig.handler)
    /\ pc' = [pc EXCEPT !["parent"] = "pselect_poll"]
    /\ UNCHANGED <<rc, exit_status, daos_inited, fs_inited, cfgvars, bgvars,
                   idvars, fusevars>>
    /\ UNCHANGED othervars

\* dfuse_bg, lines 132-156: the parent's exit.  read() takes what the pipe
\* holds, at most sizeof(child_ret) bytes.
BgResultExit ==
    IF err = EINTR
    THEN 2
    ELSE IF fd_isset
         THEN IF Head(pipe)[1] # SizeofRc
              THEN 2
              ELSE IF Head(pipe)[2] # 0
                   THEN -(Head(pipe)[2] + DER_ERR_GURT_BASE)
                   ELSE 0
         ELSE 2

ParentReturnsToMain == "check_cont"

\* dfuse_bg, lines 134-156: every path of the parent ends in exit().
ParentAfterResult == "exited"

BgResult ==
    /\ pc["parent"] = "bg_result"
    /\ pc' = [pc EXCEPT !["parent"] = ParentAfterResult]
    /\ exit_status' = [exit_status EXCEPT !["parent"] =
                           ExitStatus(BgResultExit)]
    /\ pipe' = IF err # EINTR /\ fd_isset THEN Tail(pipe) ELSE pipe
    /\ UNCHANGED <<rc, daos_inited, fs_inited, cfgvars, bg_fd, di_spipe, sig,
                   err, fd_isset, written, send_ret, cwd, stdio, idvars,
                   fusevars>>
    /\ UNCHANGED othervars

\* ------------------------------------------------------ dfuse_send_to_fg
\* What write(bg_fd, &rc, sizeof(rc)) may return: -1, a short count, or
\* sizeof(rc).
WriteResults == {-1, 2, SizeofRc}

ReportNeverFailure(v) == FALSE

\* dfuse_send_to_fg, line 56: a nonzero value reports a failure, and the
\* rest of the function is skipped.
ReportIsFailure(v) == v # 0

BgFdKept(fd) == fd

\* dfuse_send_to_fg, lines 47-48: bg_fd after close(bg_fd); bg_fd = 0.
BgFdClosed(fd) == 0

\* dfuse_send_to_fg(v) in process p, lines 34-76.  chdir_ok and open_ok: the
\* outcomes of chdir("/") and open("/dev/null").
SendToFg(p, v) ==
    IF bg_fd[p] = 0
    THEN /\ send_ret' = -DER_SUCCESS
         /\ UNCHANGED <<bg_fd, pipe, written, cwd, stdio>>
    ELSE \E ret \in WriteResults, chdir_ok \in BOOLEAN, open_ok \in BOOLEAN :
           /\ written' = [written EXCEPT ![p] = Append(@, <<ret, v>>)]
           /\ pipe' = IF ret > 0 THEN Append(pipe, <<ret, v>>) ELSE pipe
           /\ bg_fd' = [bg_fd EXCEPT ![p] = BgFdClosed(@)]
           /\ IF ret # SizeofRc
              THEN /\ send_ret' = -DER_MISC
                   /\ UNCHANGED <<cwd, stdio>>
              ELSE IF ReportIsFailure(v)
                   THEN /\ send_ret' = -DER_SUCCESS
                        /\ UNCHANGED <<cwd, stdio>>
                   ELSE /\ cwd' = IF chdir_ok THEN "/" ELSE cwd
                        /\ stdio' = IF open_ok THEN "null" ELSE stdio
                        /\ send_ret' = IF open_ok /\ chdir_ok
                                       THEN -DER_SUCCESS ELSE -DER_MISC

\* --------------------------------------------------- main, after dfuse_bg
ContWithoutPoolUnchecked == FALSE

\* main, line 428: --container was given and --pool was not.
ContWithoutPool == cont_name # NULL /\ pool_name = NULL

\* main, lines 428-431.
CheckCont(p) ==
    /\ pc[p] = "check_cont"
    /\ IF ContWithoutPool
       THEN Goto(p, "out", -DER_INVAL)
       ELSE Goto(p, "daos_init", rc)
    /\ UNCHANGED <<exit_status, daos_inited, fs_inited, cfgvars, bgvars,
                   idvars, fusevars>>
    /\ UNCHANGED othervars

\* main, lines 433-435: daos_init().
DaosInit(p) ==
    /\ pc[p] = "daos_init"
    /\ \/ /\ Goto(p, "out", -DER_NOMEM)
          /\ UNCHANGED daos_inited
       \/ /\ Goto(p, "fs_init", -DER_SUCCESS)
          /\ daos_inited' = [daos_inited EXCEPT ![p] = TRUE]
    /\ UNCHANGED <<exit_status, fs_inited, cfgvars, bgvars, idvars, fusevars>>
    /\ UNCHANGED othervars

\* main, lines 439-441: dfuse_fs_init(); its failure goes to out_debug.
FsInit(p) ==
    /\ pc[p] = "fs_init"
    /\ \/ /\ Goto(p, "out", -DER_NOMEM)
          /\ UNCHANGED fs_inited
       \/ /\ Goto(p, "path_attr", 0)
          /\ fs_inited' = TRUE
    /\ UNCHANGED <<exit_status, daos_inited, cfgvars, bgvars, idvars,
                   fusevars>>
    /\ UNCHANGED othervars

\* duns_resolve_path(p): what it may return.  A path resolved before gives
\* the same result again.
DunsResolve(q) == IF xattr[q] = Unread THEN DunsResults ELSE {xattr[q]}

PathResolveFailedAsMountpoint(r) == r # 0 /\ r # ENODATA /\ r # ENOTSUP

\* main, lines 457-467: duns_resolve_path(path) returned ENOENT, or any
\* other nonzero value.
PathResolveFailed(r) == r = ENOENT \/ r # 0

PathWithPoolUnchecked == FALSE

\* main, line 447: --path was given and --pool too.
PathWithPool == pool_name # NULL

\* main, lines 446-471: the attributes of --path.
PathAttr(p) ==
    /\ pc[p] = "path_attr"
    /\ IF path = NULL
       THEN /\ Goto(p, "mnt_attr", rc)
            /\ UNCHANGED <<xattr, pool_uuid, cont_uuid>>
       ELSE IF PathWithPool
            THEN /\ Goto(p, "out_daos", -DER_INVAL)
                 /\ UNCHANGED <<xattr, pool_uuid, cont_uuid>>
            ELSE \E r \in DunsResolve(path) :
                   /\ xattr' = [xattr EXCEPT ![path] = r]
                   /\ IF PathResolveFailed(r)
                      THEN /\ Goto(p, "out_daos", daos_errno2der(r))
                           /\ UNCHANGED <<pool_uuid, cont_uuid>>
                      ELSE /\ Goto(p, "mnt_attr", r)
                           /\ pool_uuid' = DunsAttr(path).da_puuid
                           /\ cont_uuid' = DunsAttr(path).da_cuuid
    /\ UNCHANGED <<exit_status, daos_inited, fs_inited, cfgvars, bgvars, dfp,
                   pool_ref, dfs, dfs_ops, pool_entry, nconts, fusevars>>
    /\ UNCHANGED othervars

MntContUuidKept == cont_uuid

\* main, line 495: uuid_copy(cont_uuid, duns_attr.da_cuuid).
MntContUuid == DunsAttr(di_mountpoint).da_cuuid

PathIsMountpointUnchecked == FALSE

\* main, line 490: path && strcmp(path, di_mountpoint) == 0.
PathIsMountpoint == path # NULL /\ path = di_mountpoint

MntToleratesAll(r) == TRUE

\* main, line 499: the results of the mountpoint probe that are no error.
MntTolerated(r) == r = ENODATA \/ r = ENOTSUP

PoolGivenTwiceUnchecked == FALSE

\* main, line 484: the mountpoint has attributes and --pool was given.
PoolGivenTwice == pool_name # NULL

\* main, lines 478-502: the attributes of the mountpoint.
MntAttr(p) ==
    /\ pc[p] = "mnt_attr"
    /\ \E r \in DunsResolve(di_mountpoint) :
         /\ xattr' = [xattr EXCEPT ![di_mountpoint] = r]
         /\ IF r = 0
            THEN IF PoolGivenTwice
                 THEN /\ Goto(p, "out_daos", -DER_INVAL)
                      /\ UNCHANGED <<pool_uuid, cont_uuid>>
                 ELSE IF PathIsMountpoint
                      THEN /\ Goto(p, "out_daos", -DER_INVAL)
                           /\ UNCHANGED <<pool_uuid, cont_uuid>>
                      ELSE /\ Goto(p, "pool_connect", r)
                           /\ pool_uuid' = DunsAttr(di_mountpoint).da_puuid
                           /\ cont_uuid' = MntContUuid
            ELSE IF r = ENOENT
                 THEN /\ Goto(p, "out_daos", daos_errno2der(r))
                      /\ UNCHANGED <<pool_uuid, cont_uuid>>
                 ELSE IF ~MntTolerated(r)
                      THEN /\ Goto(p, "out_daos", daos_errno2der(r))
                           /\ UNCHANGED <<pool_uuid, cont_uuid>>
                      ELSE /\ Goto(p, "pool_connect", r)
                           /\ UNCHANGED <<pool_uuid, cont_uuid>>
    /\ UNCHANGED <<exit_status, daos_inited, fs_inited, cfgvars, bgvars, dfp,
                   pool_ref, dfs, dfs_ops, pool_entry, nconts, fusevars>>
    /\ UNCHANGED othervars

\* What a failing dfuse_pool_connect*, dfuse_cont_open* returns (an errno).
ConnectErrs == {ENOENT}

\* dfuse_pool_connect and dfuse_pool_connect_by_label (dfuse_core.c): on
\* success the pool `id` is in the pool table, with one reference, the
\* caller's.
dfuse_pool_connect(id) ==
    /\ dfp' = id
    /\ pool_ref' = 1
    /\ pool_entry' = TRUE

\* dfuse_cont_open and dfuse_cont_open_by_label (dfuse_core.c): on success
\* the container `id` is open with the single-pool operation table, and
\* holds one more reference on its pool.
dfuse_cont_open(id) ==
    /\ dfs' = id
    /\ dfs_ops' = "dfuse_cont_ops"
    /\ pool_ref' = pool_ref + 1
    /\ nconts' = nconts + 1

PoolToConnectByUuidOnly ==
    IF pool_name # NULL /\ uuid_parse(pool_name).rc = 0
    THEN uuid_parse(pool_name).uu ELSE pool_uuid

\* main, lines 509-514: the pool main connects to.  uuid_parse writes
\* pool_uuid when pool_name is the text of a uuid.
PoolToConnect ==
    IF pool_name # NULL /\ uuid_parse(pool_name).rc < 0
    THEN PoolOfLabel(pool_name)
    ELSE IF pool_name # NULL THEN uuid_parse(pool_name).uu ELSE pool_uuid

\* main, lines 509-519.
PoolConnect(p) ==
    /\ pc[p] = "pool_connect"
    /\ pool_uuid' = IF pool_name # NULL /\ uuid_parse(pool_name).rc = 0
                    THEN uuid_parse(pool_name).uu ELSE pool_uuid
    /\ \/ \E e \in ConnectErrs :
            /\ Goto(p, "out_daos", daos_errno2der(e))
            /\ UNCHANGED <<dfp, pool_ref, pool_entry>>
       \/ /\ dfuse_pool_connect(PoolToConnect)
          /\ Goto(p, "cont_open", 0)
    /\ UNCHANGED <<exit_status, daos_inited, fs_inited, cfgvars, bgvars,
                   xattr, cont_uuid, dfs, dfs_ops, nconts, fusevars>>
    /\ UNCHANGED othervars

ContToOpenIgnoringAttrs ==
    IF cont_name # NULL /\ uuid_parse(cont_name).rc < 0
    THEN ContOfLabel(cont_name)
    ELSE IF cont_name # NULL THEN uuid_parse(cont_name).uu ELSE NilUuid

\* main, lines 521-527: the container main opens.
ContToOpen ==
    IF cont_name # NULL /\ uuid_parse(cont_name).rc < 0
    THEN ContOfLabel(cont_name)
    ELSE IF cont_name # NULL THEN uuid_parse(cont_name).uu ELSE cont_uuid

\* main, lines 521-532.
ContOpen(p) ==
    /\ pc[p] = "cont_open"
    /\ cont_uuid' = IF cont_name # NULL /\ uuid_parse(cont_name).rc = 0
                    THEN uuid_parse(cont_name).uu ELSE cont_uuid
    /\ \/ \E e \in ConnectErrs :
            /\ Goto(p, "out_daos", daos_errno2der(e))
            /\ UNCHANGED <<pool_ref, dfs, dfs_ops, nconts>>
       \/ /\ dfuse_cont_open(ContToOpen)
          /\ Goto(p, "decref", 0)
    /\ UNCHANGED <<exit_status, daos_inited, fs_inited, cfgvars, bgvars,
                   xattr, pool_uuid, dfp, pool_entry, fusevars>>
    /\ UNCHANGED othervars

\* d_hash_rec_decref on a pool (gurt hash table, dfuse_core.c): one reference
\* less; the entry leaves the pool table when none is left.
pool_decref(n) ==
    /\ pool_ref' = n
    /\ pool_entry' = (n > 0)

RefsAfterDoubleDrop(n) == n - 2

RefsAfterNoDrop(n) == n

\* main, line 537: the references left when main has dropped its own.
RefsAfterDrop(n) == n - 1

\* main, line 537: the initial pool reference is dropped.
PoolDecref(p) ==
    /\ pc[p] = "decref"
    /\ pool_decref(RefsAfterDrop(pool_ref))
    /\ pc' = [pc EXCEPT ![p] = "nil_ops"]
    /\ UNCHANGED <<rc, exit_status, daos_inited, fs_inited, cfgvars, bgvars,
                   xattr, pool_uuid, cont_uuid, dfp, dfs, dfs_ops, nconts,
                   fusevars>>
    /\ UNCHANGED othervars

PoolIsNilIgnored == FALSE

\* main, line 539: uuid_is_null(dfp->dfp_pool).
PoolIsNil == dfp = NilUuid

\* main, lines 539-540: the nil pool takes the multi-pool operation table.
NilOps(p) ==
    /\ pc[p] = "nil_ops"
    /\ dfs_ops' = IF PoolIsNil THEN "dfuse_pool_ops" ELSE dfs_ops
    /\ pc' = [pc EXCEPT ![p] = "dfuse_start"]
    /\ UNCHANGED <<rc, exit_status, daos_inited, fs_inited, cfgvars, bgvars,
                   xattr, pool_uuid, cont_uuid, dfp, pool_ref, dfs,
                   pool_entry, nconts, fusevars>>
    /\ UNCHANGED othervars

\* ------------------------------------------- dfuse_start, dfuse_launch_fuse
\* dfuse_start (dfuse_core.c), called at main line 542: it fails before
\* launching, or calls dfuse_launch_fuse.
DfuseStart(p) ==
    /\ pc[p] = "dfuse_start"
    /\ \/ Goto(p, "out_daos", -DER_NOMEM)
       \/ Goto(p, "session_new", rc)
    /\ UNCHANGED <<exit_status, daos_inited, fs_inited, cfgvars, bgvars,
                   idvars, fusevars>>
    /\ UNCHANGED othervars

\* dfuse_launch_fuse, lines 193-198: fuse_session_new().
SessionNew(p) ==
    /\ pc[p] = "session_new"
    /\ \/ /\ launched' = "false"
          /\ pc' = [pc EXCEPT ![p] = "start_ret"]
          /\ UNCHANGED <<di_session, nsessions>>
       \/ /\ di_session' = "new"
          /\ nsessions' = nsessions + 1
          /\ pc' = [pc EXCEPT ![p] = "session_mount"]
          /\ UNCHANGED launched
    /\ UNCHANGED <<rc, exit_status, daos_inited, fs_inited, cfgvars, bgvars,
                   idvars, loop_rc, loops, unmounts>>
    /\ UNCHANGED othervars

\* What fuse_session_mount may return.
MountResults == {0, -1}

MountFailureIgnored(r) == FALSE

\* dfuse_launch_fuse, line 202: the mount failed.
MountFailed(r) == r # 0

\* dfuse_launch_fuse, lines 200-203: fuse_session_mount().
SessionMount(p) ==
    /\ pc[p] = "session_mount"
    /\ \E r \in MountResults :
         /\ di_session' = IF r = 0 THEN "mounted" ELSE di_session
         /\ IF MountFailed(r)
            THEN /\ launched' = "false"
                 /\ pc' = [pc EXCEPT ![p] = "start_ret"]
            ELSE /\ pc' = [pc EXCEPT ![p] = "report"]
                 /\ UNCHANGED launched
    /\ UNCHANGED <<rc, exit_status, daos_inited, fs_inited, cfgvars, bgvars,
                   idvars, nsessions, loop_rc, loops, unmounts>>
    /\ UNCHANGED othervars

\* dfuse_launch_fuse, lines 205-208: the start-up report.
Report(p) ==
    /\ pc[p] = "report"
    /\ SendToFg(p, 0)
    /\ IF send_ret' # -DER_SUCCESS
       THEN /\ launched' = "false"
            /\ pc' = [pc EXCEPT ![p] = "start_ret"]
       ELSE /\ pc' = [pc EXCEPT ![p] = "loop"]
            /\ UNCHANGED launched
    /\ UNCHANGED <<rc, exit_status, daos_inited, fs_inited, cfgvars, di_spipe,
                   sig, err, fd_isset, idvars, di_session, nsessions,
                   loop_rc, loops, unmounts>>
    /\ UNCHANGED othervars

\* What the event loop may return.
LoopResults == {0, 1}

\* dfuse_launch_fuse, line 210, and ll_loop_fn, lines 160-174: the event
\* loop runs until it returns.
LoopFn(p) ==
    /\ pc[p] = "loop"
    /\ \E r \in LoopResults : loop_rc' = r
    /\ loops' = loops + 1
    /\ pc' = [pc EXCEPT ![p] = "unmount"]
    /\ UNCHANGED <<rc, exit_status, daos_inited, fs_inited, cfgvars, bgvars,
                   idvars, di_session, nsessions, launched, unmounts>>
    /\ UNCHANGED othervars

\* A lookup served by the event loop opens one more container of the pool
\* (dfuse_cont_open, dfuse_core.c): it holds one more reference on the pool.
LoopContOpen(p) ==
    /\ pc[p] = "loop"
    /\ pool_entry
    /\ nconts < MaxConts
    /\ pool_ref' = pool_ref + 1
    /\ nconts' = nconts + 1
    /\ UNCHANGED <<pc, rc, exit_status, daos_inited, fs_inited, cfgvars,
                   bgvars, xattr, pool_uuid, cont_uuid, dfp, dfs, dfs_ops,
                   pool_entry, fusevars>>
    /\ UNCHANGED othervars

\* A forget served by the event loop closes a container of the pool
\* (dfuse_core.c): its reference on the pool is dropped.
LoopContClose(p) ==
    /\ pc[p] = "loop"
    /\ nconts > 0
    /\ nconts' = nconts - 1
    /\ pool_decref(pool_ref - 1)
    /\ UNCHANGED <<pc, rc, exit_status, daos_inited, fs_inited, cfgvars,
                   bgvars, xattr, pool_uuid, cont_uuid, dfp, dfs, dfs_ops,
                   fusevars>>
    /\ UNCHANGED othervars

UnmountOnSuccessOnly(r) == r = 0

\* dfuse_launch_fuse, lines 210-212: fuse_session_unmount is called before
\* the loop's result r is tested, so whatever r is.
UnmountCalled(r) == TRUE

LaunchResultIgnoringLoop(r) == "true"

\* dfuse_launch_fuse, lines 212-217: what it returns after the loop.
LaunchResult(r) == IF r # 0 THEN "false" ELSE "true"

\* dfuse_launch_fuse, lines 211-217.
Unmount(p) ==
    /\ pc[p] = "unmount"
    /\ IF UnmountCalled(loop_rc)
       THEN /\ di_session' = "unmounted"
            /\ unmounts' = unmounts + 1
       ELSE UNCHANGED <<di_session, unmounts>>
    /\ launched' = LaunchResult(loop_rc)
    /\ pc' = [pc EXCEPT ![p] = "start_ret"]
    /\ UNCHANGED <<rc, exit_status, daos_inited, fs_inited, cfgvars, bgvars,
                   idvars, nsessions, loop_rc, loops>>
    /\ UNCHANGED othervars

\* dfuse_start (dfuse_core.c) returns to main, lines 542-544: an error when
\* dfuse_launch_fuse returned false.
StartRet(p) ==
    /\ pc[p] = "start_ret"
    /\ IF launched = "false"
       THEN Goto(p, "out_daos", -DER_INVAL)
       ELSE Goto(p, "fs_fini", -DER_SUCCESS)
    /\ UNCHANGED <<exit_status, daos_inited, fs_inited, cfgvars, bgvars,
                   idvars, fusevars>>
    /\ UNCHANGED othervars

\* What dfuse_fs_fini may return.
FiniResults == {-DER_SUCCESS, -DER_MISC}

\* main, lines 547-549: dfuse_fs_fini() and fuse_session_destroy().
FsFini(p) ==
    /\ pc[p] = "fs_fini"
    /\ \E r \in FiniResults : Goto(p, "out_daos", r)
    /\ di_session' = "destroyed"
    /\ UNCHANGED <<exit_status, daos_inited, fs_inited, cfgvars, bgvars,
                   idvars, nsessions, launched, loop_rc, loops, unmounts>>
    /\ UNCHANGED othervars

\* main, lines 551-553: out_daos, daos_fini().
OutDaos(p) ==
    /\ pc[p] = "out_daos"
    /\ daos_inited' = [daos_inited EXCEPT ![p] = FALSE]
    /\ pc' = [pc EXCEPT ![p] = "out"]
    /\ UNCHANGED <<rc, exit_status, fs_inited, cfgvars, bgvars, idvars,
                   fusevars>>
    /\ UNCHANGED othervars

\* main, lines 554-559: out_debug and out, the final dfuse_send_to_fg(rc).
Out(p) ==
    /\ pc[p] = "out"
    /\ SendToFg(p, rc)
    /\ pc' = [pc EXCEPT ![p] = "ret"]
    /\ UNCHANGED <<rc, exit_status, daos_inited, fs_inited, cfgvars, di_spipe,
                   sig, err, fd_isset, idvars, fusevars>>
    /\ UNCHANGED othervars

MainReturnWithoutBase == IF rc # 0 THEN -rc ELSE 0

\* main, lines 566-569: the value main returns.
MainReturn == IF rc # 0 THEN -(rc + DER_ERR_GURT_BASE) ELSE 0

\* main, lines 566-569: main returns and the process ends.
Ret(p) ==
    /\ pc[p] = "ret"
    /\ Exit(p, MainReturn)
    /\ IF p = "child" THEN RaiseSigchld ELSE UNCHANGED sig
    /\ UNCHANGED <<rc, daos_inited, fs_inited, cfgvars, bg_fd, di_spipe,
                   pipe, err, fd_isset, written, send_ret, cwd, stdio,
                   idvars, fusevars>>
    /\ UNCHANGED othervars

\* The child ends without returning from main (it is killed, or aborts):
\* the abnormal exit dfuse_bg's SIGCHLD handler is there for, lines 23-26
\* and 85-87.
ChildDies ==
    /\ pc["child"] \notin {"none", "exited", "died"}
    /\ pc' = [pc EXCEPT !["child"] = "died"]
    /\ RaiseSigchld
    /\ UNCHANGED <<rc, exit_status, daos_inited, fs_inited, cfgvars, bg_fd,
                   di_spipe, pipe, err, fd_isset, written, send_ret, cwd,
                   stdio, idvars, fusevars>>
    /\ UNCHANGED othervars

Main(p) ==
    \/ CheckCont(p) \/ DaosInit(p) \/ FsInit(p) \/ PathAttr(p) \/ MntAttr(p)
    \/ PoolConnect(p) \/ ContOpen(p) \/ PoolDecref(p) \/ NilOps(p)
    \/ DfuseStart(p) \/ SessionNew(p) \/ SessionMount(p) \/ Report(p)
    \/ LoopFn(p) \/ LoopContOpen(p) \/ LoopContClose(p) \/ Unmount(p) \/ StartRet(p) \/ FsFini(p) \/ OutDaos(p)
    \/ Out(p) \/ Ret(p)

Next ==
    \/ GetOpt \/ PostOpts \/ Affinity \/ ReserveThread
    \/ BgPipe \/ BgFork \/ BgSigaction
    \/ PselectPoll \/ PselectSignal \/ PselectWake \/ BgResult
    \/ \E p \in Procs : Main(p)
    \/ ChildDies

Spec == Init /\ [][Next]_vars

\* The steps of the parent inside dfuse_bg after fork().
ParentBg ==
    BgSigaction \/ PselectPoll \/ PselectSignal \/ PselectWake \/ BgResult

\* The parent is a process of its own: the kernel runs it whenever it can
\* take a step, and wakes it from pselect when the descriptor is readable
\* or a handled signal is pending.
FairSpec == Spec /\ WF_vars(ParentBg)
\* ------------------------------------------------------------ properties
\* fork() has happened.
Forked == pc["child"] # "none"

\* The process that runs main after dfuse_bg.
Runner == IF Forked THEN "child" ELSE "parent"

\* The session was mounted at some point.
WasMounted == di_session \in {"mounted", "unmounted", "destroyed"}

\* Process p made a write() call that carried the value 0.
SentZero(p) == \E i \in 1..Len(written[p]) : written[p][i][2] = 0

\* C1: the success report (the value 0) is written only once the session
\* was created and mounted; the event loop is entered in the background
\* child only with that report completely written; and a parent that
\* forked exits with status 0 only when the child's mount succeeded.
C1_ReportAfterMount ==
    /\ \A p \in Procs : SentZero(p) => WasMounted
    /\ (Forked /\ pc["child"] \in {"loop", "unmount"})
           => written["child"] = << <<SizeofRc, 0>> >>
    /\ (Forked /\ exit_status["parent"] = 0) => WasMounted

\* C1 witness: the parent has exited with 0 while the child, mounted, is in
\* its event loop.
C1_Witness ==
    /\ Forked
    /\ exit_status["parent"] = 0
    /\ pc["child"] = "loop"
    /\ di_session = "mounted"

\* The step is a dfuse_send_to_fg call of process p (from dfuse_launch_fuse
\* or at main's out label) that returns.
SendStep(p) ==
    \/ pc[p] = "report" /\ pc'[p] \in {"loop", "start_ret"}
    \/ pc[p] = "out" /\ pc'[p] = "ret"

\* C2: a process makes at most one write() on the handshake, and after it
\* bg_fd is 0 whatever write() returned; a dfuse_send_to_fg call made with
\* bg_fd = 0 writes nothing, leaves the pipe, the directory and the standard
\* streams alone and returns -DER_SUCCESS.
C2_WriteOnce ==
    /\ [](\A p \in Procs :
              /\ Len(written[p]) <= 1
              /\ (written[p] # <<>> => bg_fd[p] = 0))
    /\ [][\A p \in Procs :
              (SendStep(p) /\ bg_fd[p] = 0)
                  => /\ UNCHANGED <<bg_fd, pipe, written, cwd, stdio>>
                     /\ send_ret' = -DER_SUCCESS]_vars

\* C2 witness: the success report was written from dfuse_launch_fuse and
\* the final dfuse_send_to_fg(rc) of main has returned.
C2_Witness ==
    /\ pc["child"] = "ret"
    /\ launched = "false"
    /\ loop_rc # 0
    /\ written["child"] = << <<SizeofRc, 0>> >>
    /\ send_ret = -DER_SUCCESS

\* The child has ended, and no write() of it put a byte in the pipe.
ChildEndedSilent ==
    /\ pc["child"] \in {"exited", "died"}
    /\ \A i \in 1..Len(written["child"]) : written["child"][i][1] <= 0

\* C3: once the child has ended without writing to the pipe, the parent
\* exits with status 2 and with no other, and until it has exited the
\* SIGCHLD that will interrupt its pselect is pending or was just taken: the
\* parent cannot sleep in pselect for ever.
C3_SilentChildExit2 ==
    ChildEndedSilent =>
        IF pc["parent"] = "exited"
        THEN exit_status["parent"] = 2
        ELSE \/ sig.pending
             \/ pc["parent"] = "bg_result" /\ err = EINTR

\* C3 witness: the child died before writing and the parent has exited
\* with 2.
C3_Witness ==
    /\ pc["child"] = "died"
    /\ written["child"] = <<>>
    /\ exit_status["parent"] = 2

\* C4: when the child has completely written a nonzero rc and returned from
\* main, a parent that has exited has the status derived from rc.
C4_ReportedFailureStatus ==
    (/\ pc["child"] = "exited"
     /\ pc["parent"] = "exited"
     /\ Len(written["child"]) = 1
     /\ written["child"][1][1] = SizeofRc
     /\ written["child"][1][2] # 0)
        => exit_status["parent"] =
               ExitStatus(-(written["child"][1][2] + DER_ERR_GURT_BASE))

\* The labels of dfuse_bg's parent side.
ParentLabels == {"bg_sigaction", "pselect_poll", "pselect_signal",
                 "pselect_sleep", "bg_result", "exited"}

\* C5: after a successful fork the parent stays in dfuse_bg until it exits,
\* with 0 after a complete zero message, with the derived status after a
\* complete nonzero message, and with 2 otherwise; it never runs main's
\* start-up steps (daos_init among them), and at most one FUSE session is
\* created.
C5_ParentNeverReturns ==
    /\ Forked => pc["parent"] \in ParentLabels
    /\ Forked => ~daos_inited["parent"]
    /\ (Forked /\ pc["parent"] = "exited") =>
           \/ exit_status["parent"] = 2
           \/ \E i \in 1..Len(written["child"]) :
                 /\ written["child"][i][1] = SizeofRc
                 /\ exit_status["parent"] =
                        IF written["child"][i][2] = 0 THEN 0
                        ELSE ExitStatus(-(written["child"][i][2]
                                          + DER_ERR_GURT_BASE))
    /\ nsessions <= 1

\* C5 witness: the parent has exited and the child alone has initialised
\* daos and created the session.
C5_Witness ==
    /\ Forked
    /\ pc["parent"] = "exited"
    /\ daos_inited["child"]
    /\ nsessions = 1

\* The thread count check and the reservation are behind.
PastReserve ==
    pc["parent"] \in {"bg_pipe", "bg_fork", "check_cont", "daos_init",
                      "fs_init", "path_attr", "mnt_attr", "pool_connect"}
        \/ Forked

\* C6: a thread count of at least 2 at the check becomes that count minus
\* one, at least 1, and start-up goes on; -S without a later -t leaves one
\* worker; after the reservation the count is at least 1.
C6_WorkerCount ==
    /\ [][(pc["parent"] = "check_threads" /\ di_thread_count >= 2)
              => /\ di_thread_count' = di_thread_count - 1
                 /\ di_thread_count' >= 1
                 /\ pc'["parent"] \in {"check_cont", "bg_pipe"}]_vars
    /\ [](PastReserve => di_thread_count >= 1)
    /\ []((PastReserve /\ ~di_threaded /\ ~have_thread_count)
              => di_thread_count = 1)

\* C6 witness: -t 3 left two workers, in a forked dfuse.
C6_Witness ==
    /\ Forked
    /\ have_thread_count
    /\ di_thread_count = 2

\* C7: a thread count below 2 at the check sends main to its exit with
\* rc = -DER_INVAL, with no pipe, no child and no write; a pipe, a child or a
\* write exists only with a count that was at least 2.
C7_TooFewThreads ==
    /\ [][(pc["parent"] = "check_threads" /\ di_thread_count < 2)
              => /\ pc'["parent"] = "out"
                 /\ rc' = -DER_INVAL
                 /\ ~di_spipe' /\ ~Forked'
                 /\ written' = [p \in Procs |-> <<>>]]_vars
    /\ []((di_spipe \/ Forked \/ pc["parent"] = "bg_pipe"
               \/ written # [p \in Procs |-> <<>>])
              => di_thread_count >= 1)

\* C7 witness: dfuse -m /mnt -t 1 has exited with -(-DER_INVAL +
\* DER_ERR_GURT_BASE) = 3 and there is no pipe.
C7_Witness ==
    /\ nopts = 2
    /\ di_mountpoint # NULL
    /\ have_thread_count
    /\ di_thread_count = 1
    /\ exit_status["parent"] = 3
    /\ ~di_spipe

\* id_of(P): the pool a --pool argument names.
IdOfPool(a) ==
    IF \E u \in Uuids : a = UuidText(u)
    THEN CHOOSE u \in Uuids : a = UuidText(u)
    ELSE PoolOfLabel(a)

\* id_of(C): the container a --container argument names.
IdOfCont(a) ==
    IF \E u \in Uuids : a = UuidText(u)
    THEN CHOOSE u \in Uuids : a = UuidText(u)
    ELSE ContOfLabel(a)

\* C8: with --pool and --container, no --path, and a mountpoint without
\* attributes (ENODATA or ENOTSUP), the pool connected is id_of(P) and the
\* container opened is id_of(C).
C8_ExplicitIdentity ==
    (/\ pool_name # NULL
     /\ cont_name # NULL
     /\ path = NULL
     /\ di_mountpoint # NULL
     /\ xattr[di_mountpoint] \in {ENODATA, ENOTSUP})
        => /\ dfp # NoHandle => dfp = IdOfPool(pool_name)
           /\ dfs # NoHandle => dfs = IdOfCont(cont_name)

\* C8 witness: the pool was named by label, the container by uuid, and
\* both are connected.
C8_Witness ==
    /\ pool_name = "tank"
    /\ cont_name = UuidText(1)
    /\ path = NULL
    /\ xattr["/mnt"] = ENODATA
    /\ dfp = 2
    /\ dfs = 1

\* C9: with --path whose attributes resolve and no --pool, the pool
\* connected and the container opened are those of the path's attributes.
C9_PathIdentity ==
    (/\ path # NULL
     /\ pool_name = NULL
     /\ xattr[path] = 0)
        => /\ dfp # NoHandle => dfp = DunsAttr(path).da_puuid
           /\ dfs # NoHandle => dfs = DunsAttr(path).da_cuuid

\* C10: with --pool given and attributes found on the mountpoint, main goes
\* to its exit with rc = -DER_INVAL, no pool is connected, and the process
\* returns 3.
C10_PoolAndMountAttrs ==
    (/\ pool_name # NULL
     /\ di_mountpoint # NULL
     /\ xattr[di_mountpoint] = 0)
        => /\ rc = -DER_INVAL
           /\ dfp = NoHandle
           /\ pc[Runner] \in {"out_daos", "out", "ret", "exited", "died"}
           /\ pc[Runner] = "exited" => exit_status[Runner] = 3

\* C10 witness: such a start-up has ended.
C10_Witness ==
    /\ pool_name # NULL
    /\ di_mountpoint # NULL
    /\ xattr[di_mountpoint] = 0
    /\ pc[Runner] = "exited"

\* Labels of main from daos_init() to the end of dfuse_start: storage
\* initialisation, identity resolution, pool connect, container open, mount.
StorageLabels ==
    {"daos_init", "fs_init", "path_attr", "mnt_attr", "pool_connect",
     "cont_open", "decref", "nil_ops", "dfuse_start", "session_new",
     "session_mount", "report", "loop", "unmount", "start_ret", "fs_fini",
     "out_daos"}

\* No storage initialisation, pool connect, container open or mount was made.
NothingStarted ==
    /\ \A p \in Procs : pc[p] \notin StorageLabels /\ ~daos_inited[p]
    /\ ~fs_inited /\ dfp = NoHandle /\ dfs = NoHandle
    /\ di_session = "null" /\ nsessions = 0

\* C11: when the options name a container and no pool, the step main takes
\* at line 428 goes to `out` with rc = -DER_INVAL; no process ever stands at
\* daos_init or at any later step, so no storage initialisation, pool
\* connect, container open or mount is made, and a forked child that
\* returns from main exits with status DER_INVAL - DER_ERR_GURT_BASE.
C11_ContWithoutPool ==
    /\ [](pc["parent"] # "getopt" /\ cont_name # NULL /\ pool_name = NULL
            => /\ NothingStarted
               /\ pc["child"] = "exited"
                     => exit_status["child"] = DER_INVAL - DER_ERR_GURT_BASE)
    /\ [][\A p \in Procs :
            (pc[p] = "check_cont" /\ pc'[p] \notin {"check_cont", "died"}
             /\ cont_name # NULL /\ pool_name = NULL)
                => pc'[p] = "out" /\ rc' = -DER_INVAL]_vars

C11_Witness ==
    /\ cont_name # NULL /\ pool_name = NULL
    /\ pc["child"] = "exited" /\ rc = -DER_INVAL
    /\ exit_status["child"] = DER_INVAL - DER_ERR_GURT_BASE

\* C12: when both --path and the mountpoint have been probed and both carry
\* attributes, start-up is aborted: no pool is connected, main is on its way
\* out with an error, and the pair read from --path was not replaced by the
\* mountpoint's.
C12_TwoAttrSources ==
    (/\ path # NULL
     /\ pool_name = NULL
     /\ xattr[path] = 0
     /\ xattr[di_mountpoint] = 0
     /\ pc[Runner] \notin {"path_attr", "mnt_attr"})
        => /\ pc[Runner] \in {"out_daos", "out", "ret", "exited", "died"}
           /\ dfp = NoHandle
           /\ pool_uuid = DunsAttr(path).da_puuid
           /\ cont_uuid = DunsAttr(path).da_cuuid

\* C13: the pool is connected with one reference; each container open adds
\* one; once main has dropped its own reference the pool holds as many
\* references as containers are open against it, and it is in the pool
\* table exactly while that number is above zero.
C13_PoolRefcount ==
    /\ pc[Runner] = "cont_open" => pool_ref = 1 /\ nconts = 0 /\ pool_entry
    /\ pc[Runner] = "decref" => pool_ref = nconts + 1 /\ pool_entry
    /\ (dfs # NoHandle /\ pc[Runner] \notin {"decref", "died"})
          => /\ pool_ref = nconts
             /\ pool_entry <=> nconts > 0

\* C13 witness: the event loop has closed the last container.
C13_Witness ==
    /\ pc[Runner] = "unmount"
    /\ dfs # NoHandle
    /\ nconts = 0
    /\ pool_ref = 0
    /\ ~pool_entry

\* C14: from line 541 on, the container's operation table is dfuse_pool_ops
\* exactly when the connected pool is the nil uuid; for any other pool it
\* is still the table dfuse_cont_open set, dfuse_cont_ops.
C14_NilPoolOps ==
    /\ pc[Runner] \in {"decref", "nil_ops"} => dfs_ops = "dfuse_cont_ops"
    /\ (dfs # NoHandle /\ pc[Runner] \notin {"decref", "nil_ops", "died"})
          => /\ dfs_ops = "dfuse_pool_ops" <=> dfp = NilUuid
             /\ dfp # NilUuid => dfs_ops = "dfuse_cont_ops"

\* C14 witness: no pool was named anywhere, and the nil pool is served.
C14_Witness ==
    /\ pc[Runner] = "loop"
    /\ dfp = NilUuid
    /\ dfs_ops = "dfuse_pool_ops"

\* dfuse_launch_fuse has returned.
LaunchReturned == launched # "no"

\* C15: fuse_session_unmount is called only after the event loop returned,
\* at most once, and it has been called exactly once when dfuse_launch_fuse
\* returns after the loop, whatever the loop returned; when the loop
\* returned nonzero, dfuse_launch_fuse returns false.
C15_UnmountAfterLoop ==
    /\ loops <= 1 /\ unmounts <= loops
    /\ pc[Runner] = "unmount" => loops = 1 /\ unmounts = 0
    /\ LaunchReturned => unmounts = loops
    /\ unmounts = 1 => di_session \in {"unmounted", "destroyed"}
    /\ (LaunchReturned /\ loops = 1 /\ loop_rc # 0) => launched = "false"

\* C15 witness: the loop returned nonzero, the session was unmounted and
\* dfuse_launch_fuse returned false.
C15_Witness ==
    /\ pc[Runner] = "start_ret"
    /\ loops = 1 /\ loop_rc # 0
    /\ unmounts = 1 /\ di_session = "unmounted"
    /\ launched = "false"

\* C20: at the return of dfuse_launch_fuse, it returned true exactly when a
\* session was created and mounted, the start-up report succeeded and the
\* event loop ran and returned 0; in every other case it returned false.
C20_LaunchResult ==
    pc[Runner] = "start_ret" =>
        /\ launched \in {"true", "false"}
        /\ launched = "true" <=>
              /\ nsessions = 1
              /\ WasMounted
              /\ send_ret = -DER_SUCCESS
              /\ loops = 1
              /\ loop_rc = 0

\* C20 witness: dfuse_launch_fuse returned true.
C20_Witness ==
    /\ pc[Runner] = "start_ret"
    /\ launched = "true"
    /\ loops = 1 /\ loop_rc = 0

\* C16: when fuse_session_mount failed, the session fuse_session_new made
\* is released before dfuse_launch_fuse returns, and no process ends with a
\* session that was created and neither mounted nor destroyed.
C16_MountFailureReleases ==
    /\ (LaunchReturned /\ pc[Runner] # "died") => di_session # "new"
    /\ pc[Runner] = "exited" => di_session # "new"

\* The parent has read a complete message from the handshake and exited on
\* it: the message is the first the child wrote.
ParentReadComplete ==
    /\ Forked
    /\ pc["parent"] = "exited"
    /\ err # EINTR
    /\ fd_isset
    /\ written["child"] # <<>>
    /\ written["child"][1][1] = SizeofRc

\* The status of a process that ended on the value v is -(v + base), within
\* 1..255.
StatusOf(st, v) ==
    /\ st = -(v + DER_ERR_GURT_BASE)
    /\ st \in 1..255

\* C17 as stated: for every nonzero rc main returns, and every nonzero value
\* the parent reads, the exit status is -(rc + DER_ERR_GURT_BASE), a number
\* in 1..255.
C17_ExitStatusAnyRc ==
    /\ (pc[Runner] = "exited" /\ rc # 0)
          => StatusOf(exit_status[Runner], rc)
    /\ (ParentReadComplete /\ written["child"][1][2] # 0)
          => StatusOf(exit_status["parent"], written["child"][1][2])

\* v is an error of the range the conversion was written for:
\* -(v + DER_ERR_GURT_BASE) is in 1..255.
InGurtRange(v) == -(v + DER_ERR_GURT_BASE) \in 1..255

\* C17 amended: for a nonzero rc of the range DER_ERR_GURT_BASE + 1..255 the
\* exit status is -(rc + DER_ERR_GURT_BASE); for any other nonzero rc it is
\* that number truncated to its low 8 bits, and differs from it.
C17_ExitStatusGurtRange ==
    /\ (pc[Runner] = "exited" /\ rc # 0) =>
          IF InGurtRange(rc)
          THEN StatusOf(exit_status[Runner], rc)
          ELSE /\ exit_status[Runner] = (-(rc + DER_ERR_GURT_BASE)) % 256
               /\ exit_status[Runner] # -(rc + DER_ERR_GURT_BASE)
    /\ (ParentReadComplete /\ written["child"][1][2] # 0) =>
          IF InGurtRange(written["child"][1][2])
          THEN StatusOf(exit_status["parent"], written["child"][1][2])
          ELSE exit_status["parent"] =
                   (-(written["child"][1][2] + DER_ERR_GURT_BASE)) % 256

\* C17 witness: both processes ended on -DER_INVAL, a code of the range,
\* with status 3.
C17_Witness ==
    /\ ParentReadComplete
    /\ pc["child"] = "exited"
    /\ rc = -DER_INVAL
    /\ written["child"][1][2] = -DER_INVAL
    /\ exit_status["child"] = DER_INVAL - DER_ERR_GURT_BASE
    /\ exit_status["parent"] = DER_INVAL - DER_ERR_GURT_BASE

\* C18: when the process that ran main has returned from it, daos_fini was
\* called if daos_init had succeeded, and main holds no reference of its
\* own on a pool it connected: the pool's references are those of the open
\* containers.
C18_ReleasedOnExit ==
    pc[Runner] = "exited" =>
        /\ ~daos_inited[Runner]
        /\ dfp # NoHandle => pool_ref = nconts

\* C19: once dfuse_bg has forked, the options hold no configuration error:
\* a mountpoint was given, the thread count passed the check of line 412,
\* and no container was given without a pool; a child never reports one.
C19_ConfigErrorsBeforeFork ==
    Forked =>
        /\ di_mountpoint # NULL
        /\ di_thread_count >= 1
        /\ ~(cont_name # NULL /\ pool_name = NULL)

\* C21: dfuse_launch_fuse never returns with the session still mounted: when
\* the start-up report failed after the mount, the session was unmounted
\* before the return.
C21_ReportFailureUnmounts ==
    pc[Runner] = "start_ret" => di_session # "mounted"

\* C22: the working directory and the standard streams change only in a
\* step that is a dfuse_send_to_fg call with bg_fd set, value 0 and a write
\* of all sizeof(rc) bytes; so a call with a nonzero value, a call whose
\* write is short, and a call with bg_fd = 0 leave them as they were.
C22_DetachOnlyOnZeroReport ==
    [][(cwd' # cwd \/ stdio' # stdio) =>
          \E p \in Procs :
             /\ bg_fd[p] # 0
             /\ bg_fd'[p] = 0
             /\ written'[p] = Append(written[p], <<SizeofRc, 0>>)]_vars

\* C22 witness: the child has reported 0 and is detached.
C22_Witness ==
    /\ written["child"] = << <<SizeofRc, 0>> >>
    /\ cwd = "/"
    /\ stdio = "null"

\* Labels of main after the --path step, up to the end of dfuse_start.
AfterPathLabels ==
    StorageLabels \ {"daos_init", "fs_init", "path_attr", "out_daos"}

\* C23: with --path and --pool both given, no path is ever resolved, no
\* process stands at the mountpoint probe or at any later step, no pool is
\* connected, and the step main takes at line 446 goes to out_daos with
\* rc = -DER_INVAL.
C23_PathAndPool ==
    /\ [](pc["parent"] # "getopt" /\ path # NULL /\ pool_name # NULL
            => /\ \A q \in PathArgs : xattr[q] = Unread
               /\ \A p \in Procs : pc[p] \notin AfterPathLabels
               /\ dfp = NoHandle)
    /\ [][\A p \in Procs :
            (pc[p] = "path_attr" /\ pc'[p] \notin {"path_attr", "died"}
             /\ path # NULL /\ pool_name # NULL)
                => pc'[p] = "out_daos" /\ rc' = -DER_INVAL]_vars

\* C23 witness: such a start-up got as far as the --path step and ended
\* with the status of -DER_INVAL.
C23_Witness ==
    /\ path # NULL /\ pool_name # NULL
    /\ fs_inited
    /\ pc[Runner] = "exited"
    /\ rc = -DER_INVAL
    /\ exit_status[Runner] = DER_INVAL - DER_ERR_GURT_BASE

\* main is on its way out, or the process has ended.
Leaving == pc[Runner] \in {"out_daos", "out", "ret", "exited", "died"}

\* C24: when the resolution of --path returned anything but 0, ENODATA and
\* ENOTSUP included, start-up is aborted with that error, no pool is
\* connected and no pair was copied; main stands at the mountpoint probe
\* with --path given only when the resolution returned 0 and pool_uuid and
\* cont_uuid are the pair of the path's attributes.
C24_PathResolveErrors ==
    /\ (path # NULL /\ xattr[path] \notin {Unread, 0})
          => /\ Leaving
             /\ pc[Runner] # "died" => rc = daos_errno2der(xattr[path])
             /\ dfp = NoHandle
             /\ pool_uuid = NilUuid /\ cont_uuid = NilUuid
    /\ (path # NULL /\ pc[Runner] = "mnt_attr")
          => /\ xattr[path] = 0
             /\ pool_uuid = DunsAttr(path).da_puuid
             /\ cont_uuid = DunsAttr(path).da_cuuid

\* C24 witness: --path carried no attributes (ENODATA) and start-up ended
\* with -DER_MISC.
C24_Witness ==
    /\ path # NULL
    /\ xattr[path] = ENODATA
    /\ pc[Runner] = "exited"
    /\ rc = -DER_MISC

\* Labels of main after the mountpoint probe, up to the end of dfuse_start.
AfterMntLabels == AfterPathLabels \ {"mnt_attr"}

\* C25: main goes past the mountpoint probe only when it returned 0,
\* ENODATA or ENOTSUP; any other result leaves main with no pool connected;
\* after ENODATA or ENOTSUP main stands at the pool connect with pool_uuid
\* and cont_uuid as the --path step left them: the path's pair, or nil.
C25_MountpointProbe ==
    /\ pc[Runner] \in AfterMntLabels
          => xattr[di_mountpoint] \in {0, ENODATA, ENOTSUP}
    /\ (di_mountpoint # NULL
         /\ xattr[di_mountpoint] \notin {Unread, 0, ENODATA, ENOTSUP})
          => Leaving /\ dfp = NoHandle
    /\ (pc[Runner] = "pool_connect"
         /\ xattr[di_mountpoint] \in {ENODATA, ENOTSUP})
          => IF path # NULL
             THEN /\ pool_uuid = DunsAttr(path).da_puuid
                  /\ cont_uuid = DunsAttr(path).da_cuuid
             ELSE /\ pool_uuid = NilUuid
                  /\ cont_uuid = NilUuid

\* C25 witness: the mountpoint has no attribute support, and the pool of
\* the --path attributes is connected.
C25_Witness ==
    /\ path # NULL
    /\ di_mountpoint # NULL
    /\ xattr[di_mountpoint] = ENOTSUP
    /\ dfp = DunsAttr(path).da_puuid

\* C26: with --path equal to the mountpoint and the probe of the mountpoint
\* successful, main leaves with rc = -DER_INVAL and no pool connected, and
\* the process returns the status of -DER_INVAL.
C26_PathIsMountpoint ==
    (/\ path # NULL
     /\ path = di_mountpoint
     /\ xattr[path] = 0
     /\ pc[Runner] # "mnt_attr")
        => /\ Leaving
           /\ dfp = NoHandle
           /\ pc[Runner] # "died" => rc = -DER_INVAL
           /\ pc[Runner] = "exited"
                 => exit_status[Runner] = DER_INVAL - DER_ERR_GURT_BASE

\* C26 witness: such a start-up has ended.
C26_Witness ==
    /\ path # NULL
    /\ path = di_mountpoint
    /\ xattr[path] = 0
    /\ pc[Runner] = "exited"
    /\ exit_status[Runner] = DER_INVAL - DER_ERR_GURT_BASE

\* The pair <<pool, cont>> is the one a single source gives: the attributes
\* of --path, the attributes of the mountpoint, or the explicit arguments
\* with nil for an argument not given.
OneSource(pool, cont) ==
    \/ /\ path # NULL /\ xattr[path] = 0
       /\ pool_name = NULL /\ cont_name = NULL
       /\ pool = DunsAttr(path).da_puuid
       /\ cont = DunsAttr(path).da_cuuid
    \/ /\ xattr[di_mountpoint] = 0
       /\ pool_name = NULL /\ cont_name = NULL
       /\ pool = DunsAttr(di_mountpoint).da_puuid
       /\ cont = DunsAttr(di_mountpoint).da_cuuid
    \/ /\ \A q \in PathArgs : xattr[q] # 0
       /\ pool = IF pool_name # NULL THEN IdOfPool(pool_name) ELSE NilUuid
       /\ cont = IF cont_name # NULL THEN IdOfCont(cont_name) ELSE NilUuid

\* C27: at the pool connect the pool main is about to connect and the
\* container it is about to open are the pair of one source, and so are the
\* pool connected and the container opened afterwards.
C27_OneSource ==
    /\ pc[Runner] \in {"pool_connect", "cont_open"}
          => OneSource(PoolToConnect, ContToOpen)
    /\ pc[Runner] = "cont_open" => dfp = PoolToConnect
    /\ (dfp # NoHandle /\ dfs # NoHandle) => OneSource(dfp, dfs)

\* C27 witness: --path and the mountpoint both carry attributes, and the
\* pool and the container served are both the mountpoint's.
C27_Witness ==
    /\ path # NULL /\ path # di_mountpoint
    /\ di_mountpoint # NULL
    /\ xattr[path] = 0 /\ xattr[di_mountpoint] = 0
    /\ dfp = DunsAttr(di_mountpoint).da_puuid
    /\ dfs = DunsAttr(di_mountpoint).da_cuuid

\* C28 as stated: with --container given and --pool not, start-up goes on
\* past the check of the arguments to the attribute sources, and once an
\* attribute source has given a pair, the pool connected and the container
\* opened are that pair, not the explicit container.
C28_AttrsOutrankArgs ==
    /\ [][\A p \in Procs :
            (pc[p] = "check_cont" /\ pc'[p] \notin {"check_cont", "died"}
             /\ cont_name # NULL /\ pool_name = NULL)
                => pc'[p] = "daos_init"]_vars
    /\ []((cont_name # NULL /\ pool_name = NULL
           /\ di_mountpoint # NULL /\ xattr[di_mountpoint] = 0
           /\ dfs # NoHandle)
            => /\ dfp = DunsAttr(di_mountpoint).da_puuid
               /\ dfs = DunsAttr(di_mountpoint).da_cuuid)

\* C28 amended: with --container given and --pool not, no attribute source
\* is ever probed and nothing is bound; whenever a pool is connected after
\* an attribute source gave a pair, neither --pool nor --container was
\* given, and the pool connected and the container opened are the pair
\* held in pool_uuid and cont_uuid.
C28_AttrsOnlyWithoutArgs ==
    /\ (pc["parent"] # "getopt" /\ cont_name # NULL /\ pool_name = NULL)
          => /\ \A q \in PathArgs : xattr[q] = Unread
             /\ dfp = NoHandle /\ dfs = NoHandle
    /\ (dfp # NoHandle /\ \E q \in PathArgs : xattr[q] = 0)
          => /\ pool_name = NULL /\ cont_name = NULL
             /\ dfp = pool_uuid
             /\ dfs # NoHandle => dfs = cont_uuid

\* C28 witness: the mountpoint gave a pair, no argument named a pool or a
\* container, and the pair is bound.
C28_Witness ==
    /\ di_mountpoint # NULL
    /\ xattr[di_mountpoint] = 0
    /\ pool_name = NULL /\ cont_name = NULL
    /\ dfp = DunsAttr(di_mountpoint).da_puuid
    /\ dfs = DunsAttr(di_mountpoint).da_cuuid

\* C29: from the pool connect on, the pool holds at least as many
\* references as containers are open against it, and when main reads
\* dfp->dfp_pool at line 539, after dropping its own reference, the pool
\* still holds a reference and is in the pool table.
C29_PoolOutlivesContainers ==
    /\ pool_ref >= nconts
    /\ dfp # NoHandle => pool_ref >= 0
    /\ pc[Runner] = "nil_ops"
          => /\ dfp # NoHandle
             /\ pool_ref >= 1
             /\ pool_entry

\* C29 witness: main is at line 539, and the container it opened holds the
\* one reference left.
C29_Witness ==
    /\ pc[Runner] = "nil_ops"
    /\ nconts = 1
    /\ pool_ref = 1

\* The child has written all sizeof(rc) bytes of a value to the handshake.
ChildWroteAll ==
    \E i \in 1..Len(written["child"]) : written["child"][i][1] = SizeofRc

\* C30: in background mode, once the child has completed a write to the
\* handshake or has ended (returned from main, or died), at whatever step
\* of dfuse_bg the parent stands, the parent eventually exits.
C30_ParentExits ==
    (Forked /\ (ChildWroteAll \/ pc["child"] \in {"exited", "died"}))
        ~> pc["parent"] = "exited"

\* C30 witness: the child died without writing, and the parent has left
\* pselect on EINTR and exited.
C30_Witness ==
    /\ pc["child"] = "died"
    /\ written["child"] = <<>>
    /\ pc["parent"] = "exited"
    /\ err = EINTR

\* C31: when the child has written all of a nonzero rc to the handshake and
\* both processes have exited, the parent's exit status is the child's.
C31_ParentStatusIsChilds ==
    (/\ pc["child"] = "exited"
     /\ pc["parent"] = "exited"
     /\ written["child"] # <<>>
     /\ written["child"][1][1] = SizeofRc
     /\ written["child"][1][2] # 0)
        => exit_status["parent"] = exit_status["child"]

\* C32: in foreground mode (-f, or PMIX_RANK) dfuse_bg is not entered: no
\* pipe, no fork, bg_fd is 0 in every process, no write was made on a
\* handshake, every dfuse_send_to_fg returned -DER_SUCCESS, and the working
\* directory and the standard streams are those dfuse was started with.
C32_ForegroundNoHandshake ==
    di_foreground =>
        /\ ~Forked /\ ~di_spipe
        /\ pc["parent"] \notin ParentLabels \ {"exited"}
        /\ pc["parent"] \notin {"bg_pipe", "bg_fork"}
        /\ \A p \in Procs : bg_fd[p] = 0 /\ written[p] = <<>>
        /\ pipe = <<>>
        /\ send_ret = -DER_SUCCESS
        /\ cwd = "start" /\ stdio = "tty"

\* C32 witness: a foreground dfuse mounted, made its start-up report and
\* its final report, and returned.
C32_Witness ==
    /\ di_foreground
    /\ di_session = "destroyed"
    /\ pc["parent"] = "exited"
    /\ written["parent"] = <<>>
    /\ cwd = "start" /\ stdio = "tty"

\* -------------------------------------------------------------- test_group
\* A test_group process: its main thread (test_group_init, run_test_group,
\* test_group_fini) and its ctx_num progress threads.  The processes of the
\* other groups are the environment: they answer the RPCs this process
\* sends, and send check-in and shutdown requests to a service.

\* test_group_init, lines 283-290: one turn of the loop that creates context
\* i and starts its progress thread.
TgCreate ==
    /\ tg_pc = "init"
    /\ tg_ii < ctx_num
    /\ thr_pc' = [thr_pc EXCEPT ![tg_ii] = "progress"]
    /\ tg_ii' = tg_ii + 1
    /\ UNCHANGED <<is_service, should_attach, myrank, ctx_num,
                   target_group_size, g_shutdown, g_complete, g_roomno,
                   g_token_to_proceed, tg_pc, thr_room, cb_pending,
                   req_pending, shutdown_req, rooms>>
    /\ UNCHANGED nottg

\* test_group_init, line 291: after the loop, g_complete = 1.
TgInitDone ==
    /\ tg_pc = "init"
    /\ tg_ii = ctx_num
    /\ g_complete' = 1
    /\ tg_pc' = "run"
    /\ UNCHANGED <<is_service, should_attach, myrank, ctx_num,
                   target_group_size, g_shutdown, g_roomno,
                   g_token_to_proceed, tg_ii, thr_pc, thr_room, cb_pending,
                   req_pending, shutdown_req, rooms>>
    /\ UNCHANGED nottg

\* run_test_group, lines 306-322: return at once without --attach_to;
\* otherwise attach, g_complete = 0, and read the size of the attached group.
TgRun ==
    /\ tg_pc = "run"
    /\ IF ~should_attach
       THEN /\ tg_pc' = "fini"
            /\ UNCHANGED <<g_complete, target_group_size, tg_ii>>
       ELSE /\ g_complete' = 0
            /\ \E n \in 1..MaxGroup : target_group_size' = n
            /\ tg_ii' = 0
            /\ tg_pc' = "checkin_send"
    /\ UNCHANGED <<is_service, should_attach, myrank, ctx_num, g_shutdown,
                   g_roomno, g_token_to_proceed, thr_pc, thr_room,
                   cb_pending, req_pending, shutdown_req, rooms>>
    /\ UNCHANGED nottg

\* run_test_group, lines 323-347: send one check-in to each rank of the
\* attached group through crt_ctx[0]; its completion callback becomes due on
\* that context.
TgCheckinSend ==
    /\ tg_pc = "checkin_send"
    /\ IF tg_ii < target_group_size
       THEN /\ cb_pending' = [cb_pending EXCEPT
                                 !["ECHO_OPC_CHECKIN"] = @ + 1]
            /\ tg_ii' = tg_ii + 1
            /\ UNCHANGED tg_pc
       ELSE /\ tg_ii' = 0
            /\ tg_pc' = "checkin_wait"
            /\ UNCHANGED cb_pending
    /\ UNCHANGED <<is_service, should_attach, myrank, ctx_num,
                   target_group_size, g_shutdown, g_complete, g_roomno,
                   g_token_to_proceed, thr_pc, thr_room, req_pending,
                   shutdown_req, rooms>>
    /\ UNCHANGED nottg

\* run_test_group, lines 348-349: wait on the semaphore once per rank (the
\* model runs without --loop: line 351 is not entered).
TgCheckinWait ==
    /\ tg_pc = "checkin_wait"
    /\ IF tg_ii < target_group_size
       THEN /\ g_token_to_proceed > 0
            /\ g_token_to_proceed' = g_token_to_proceed - 1
            /\ tg_ii' = tg_ii + 1
            /\ UNCHANGED tg_pc
       ELSE /\ tg_pc' = "fini"
            /\ UNCHANGED <<g_token_to_proceed, tg_ii>>
    /\ UNCHANGED <<is_service, should_attach, myrank, ctx_num,
                   target_group_size, g_shutdown, g_complete, g_roomno,
                   thr_pc, thr_room, cb_pending, req_pending, shutdown_req,
                   rooms>>
    /\ UNCHANGED nottg

\* test_group_fini, line 390: only an attached process of rank 0 sends the
\* shutdown requests.
SendsShutdown == should_attach /\ myrank = 0

\* test_group_fini, lines 390-392.
TgFini ==
    /\ tg_pc = "fini"
    /\ tg_ii' = 0
    /\ tg_pc' = IF SendsShutdown THEN "shutdown_send" ELSE "detach"
    /\ UNCHANGED <<is_service, should_attach, myrank, ctx_num,
                   target_group_size, g_shutdown, g_complete, g_roomno,
                   g_token_to_proceed, thr_pc, thr_room, cb_pending,
                   req_pending, shutdown_req, rooms>>
    /\ UNCHANGED nottg

\* test_group_fini, lines 392-402: send the shutdown request to rank ii.
TgShutdownSend ==
    /\ tg_pc = "shutdown_send"
    /\ IF tg_ii < target_group_size
       THEN /\ cb_pending' = [cb_pending EXCEPT
                                 !["ECHO_OPC_SHUTDOWN"] = @ + 1]
            /\ tg_pc' = "shutdown_wait"
       ELSE /\ tg_pc' = "detach"
            /\ UNCHANGED cb_pending
    /\ UNCHANGED <<is_service, should_attach, myrank, ctx_num,
                   target_group_size, g_shutdown, g_complete, g_roomno,
                   g_token_to_proceed, tg_ii, thr_pc, thr_room, req_pending,
                   shutdown_req, rooms>>
    /\ UNCHANGED nottg

\* test_group_fini, line 404: wait for the callback of that request.
TgShutdownWait ==
    /\ tg_pc = "shutdown_wait"
    /\ g_token_to_proceed > 0
    /\ g_token_to_proceed' = g_token_to_proceed - 1
    /\ tg_ii' = tg_ii + 1
    /\ tg_pc' = "shutdown_send"
    /\ UNCHANGED <<is_service, should_attach, myrank, ctx_num,
                   target_group_size, g_shutdown, g_complete, g_roomno,
                   thr_pc, thr_room, cb_pending, req_pending, shutdown_req,
                   rooms>>
    /\ UNCHANGED nottg

\* test_group_fini, lines 407-412: detach, and in a process that is not a
\* service g_shutdown = 1.
TgDetach ==
    /\ tg_pc = "detach"
    /\ g_shutdown' = IF ~is_service THEN 1 ELSE g_shutdown
    /\ tg_ii' = 0
    /\ tg_pc' = "join"
    /\ UNCHANGED <<is_service, should_attach, myrank, ctx_num,
                   target_group_size, g_complete, g_roomno,
                   g_token_to_proceed, thr_pc, thr_room, cb_pending,
                   req_pending, shutdown_req, rooms>>
    /\ UNCHANGED nottg

\* test_group_fini, lines 414-423: pthread_join(tid[ii]) returns once that
\* thread has exited; after the last one the process finishes.
TgJoin ==
    /\ tg_pc = "join"
    /\ IF tg_ii < ctx_num
       THEN /\ thr_pc[tg_ii] = "exited"
            /\ tg_ii' = tg_ii + 1
            /\ UNCHANGED tg_pc
       ELSE /\ tg_pc' = "done"
            /\ UNCHANGED tg_ii
    /\ UNCHANGED <<is_service, should_attach, myrank, ctx_num,
                   target_group_size, g_shutdown, g_complete, g_roomno,
                   g_token_to_proceed, thr_pc, thr_room, cb_pending,
                   req_pending, shutdown_req, rooms>>
    /\ UNCHANGED nottg

\* What crt_progress(crt_ctx[t]) has to deliver in thread t.
HasCallback(t) == t = 0 /\ \E o \in Opcs : cb_pending[o] > 0
HasCheckin(t) == is_service /\ req_pending[t] > 0
HasShutdown(t) == is_service /\ t = 0 /\ shutdown_req = "pending"

\* progress_thread, line 200, calling client_cb_common (lines 139-178) for a
\* completed request: a check-in posts the semaphore; a shutdown sets
\* g_complete = 1 and posts the semaphore.
ThrCallback(t) ==
    /\ thr_pc[t] = "progress"
    /\ t = 0
    /\ \E o \in Opcs :
          /\ cb_pending[o] > 0
          /\ cb_pending' = [cb_pending EXCEPT ![o] = @ - 1]
          /\ g_complete' = IF o = "ECHO_OPC_SHUTDOWN" THEN 1 ELSE g_complete
    /\ g_token_to_proceed' = g_token_to_proceed + 1
    /\ thr_pc' = [thr_pc EXCEPT ![t] = "check"]
    /\ UNCHANGED <<is_service, should_attach, myrank, ctx_num,
                   target_group_size, g_shutdown, g_roomno, tg_pc, tg_ii,
                   thr_room, req_pending, shutdown_req, rooms>>
    /\ UNCHANGED nottg

\* progress_thread, line 200, calling echo_checkin_handler, line 130: the
\* load of g_roomno in `g_roomno++`.
ThrCheckinLoad(t) ==
    /\ thr_pc[t] = "progress"
    /\ HasCheckin(t)
    /\ thr_room' = [thr_room EXCEPT ![t] = g_roomno]
    /\ thr_pc' = [thr_pc EXCEPT ![t] = "checkin_store"]
    /\ UNCHANGED <<is_service, should_attach, myrank, ctx_num,
                   target_group_size, g_shutdown, g_complete, g_roomno,
                   g_token_to_proceed, tg_pc, tg_ii, cb_pending,
                   req_pending, shutdown_req, rooms>>
    /\ UNCHANGED nottg

\* echo_checkin_handler, lines 130-132: the store of `g_roomno++`, room_no
\* is the value loaded, and the reply is sent.
ThrCheckinStore(t) ==
    /\ thr_pc[t] = "checkin_store"
    /\ g_roomno' = thr_room[t] + 1
    /\ rooms' = Append(rooms, thr_room[t])
    /\ req_pending' = [req_pending EXCEPT ![t] = @ - 1]
    /\ thr_pc' = [thr_pc EXCEPT ![t] = "check"]
    /\ UNCHANGED <<is_service, should_attach, myrank, ctx_num,
                   target_group_size, g_shutdown, g_complete,
                   g_token_to_proceed, tg_pc, tg_ii, thr_room, cb_pending,
                   shutdown_req>>
    /\ UNCHANGED nottg

\* progress_thread, line 200, calling echo_shutdown_handler (lines 216-229):
\* g_shutdown = 1.
ThrShutdown(t) ==
    /\ thr_pc[t] = "progress"
    /\ HasShutdown(t)
    /\ g_shutdown' = 1
    /\ shutdown_req' = "handled"
    /\ thr_pc' = [thr_pc EXCEPT ![t] = "check"]
    /\ UNCHANGED <<is_service, should_attach, myrank, ctx_num,
                   target_group_size, g_complete, g_roomno,
                   g_token_to_proceed, tg_pc, tg_ii, thr_room, cb_pending,
                   req_pending, rooms>>
    /\ UNCHANGED nottg

\* progress_thread, lines 200-201: crt_progress has nothing to deliver and
\* returns -CER_TIMEDOUT.
ThrTimeout(t) ==
    /\ thr_pc[t] = "progress"
    /\ ~HasCallback(t) /\ ~HasCheckin(t) /\ ~HasShutdown(t)
    /\ thr_pc' = [thr_pc EXCEPT ![t] = "check"]
    /\ UNCHANGED <<is_service, should_attach, myrank, ctx_num,
                   target_group_size, g_shutdown, g_complete, g_roomno,
                   g_token_to_proceed, tg_pc, tg_ii, thr_room, cb_pending,
                   req_pending, shutdown_req, rooms>>
    /\ UNCHANGED nottg

\* progress_thread, lines 201-204: crt_progress fails; the thread leaves the
\* loop.
ThrError(t) ==
    /\ thr_pc[t] = "progress"
    /\ thr_pc' = [thr_pc EXCEPT ![t] = "exited"]
    /\ UNCHANGED <<is_service, should_attach, myrank, ctx_num,
                   target_group_size, g_shutdown, g_complete, g_roomno,
                   g_token_to_proceed, tg_pc, tg_ii, thr_room, cb_pending,
                   req_pending, shutdown_req, rooms>>
    /\ UNCHANGED nottg

\* progress_thread, line 205: the condition on which the loop is left.
LeavesLoop == g_shutdown = 1 /\ g_complete = 1

\* progress_thread, lines 205-207 (`dead` is never set: no fake event is
\* raised).
ThrCheck(t) ==
    /\ thr_pc[t] = "check"
    /\ thr_pc' = [thr_pc EXCEPT ![t] =
                     IF LeavesLoop THEN "exited" ELSE "progress"]
    /\ UNCHANGED <<is_service, should_attach, myrank, ctx_num,
                   target_group_size, g_shutdown, g_complete, g_roomno,
                   g_token_to_proceed, tg_pc, tg_ii, thr_room, cb_pending,
                   req_pending, shutdown_req, rooms>>
    /\ UNCHANGED nottg

\* Check-in requests waiting on the contexts 0..t.
RECURSIVE PendingUpTo(_)
PendingUpTo(t) == IF t < 0 THEN 0 ELSE req_pending[t] + PendingUpTo(t - 1)

\* A process of another group sends a check-in to context t of this service
\* (test_group_init, lines 259-263 and 283-290: the handler is registered
\* and every context accepts requests).
EnvCheckin(t) ==
    /\ is_service
    /\ thr_pc[t] # "none"
    /\ Len(rooms) + PendingUpTo(MaxCtx - 1) < MaxCheckins
    /\ req_pending' = [req_pending EXCEPT ![t] = @ + 1]
    /\ UNCHANGED <<is_service, should_attach, myrank, ctx_num,
                   target_group_size, g_shutdown, g_complete, g_roomno,
                   g_token_to_proceed, tg_pc, tg_ii, thr_pc, thr_room,
                   cb_pending, shutdown_req, rooms>>
    /\ UNCHANGED nottg

\* The attached client of rank 0 sends its shutdown request to this service
\* (test_group_init, lines 264-271; test_group_fini, lines 390-402: the
\* request goes to tag 0).
EnvShutdown ==
    /\ is_service
    /\ thr_pc[0] # "none"
    /\ shutdown_req = "none"
    /\ shutdown_req' = "pending"
    /\ UNCHANGED <<is_service, should_attach, myrank, ctx_num,
                   target_group_size, g_shutdown, g_complete, g_roomno,
                   g_token_to_proceed, tg_pc, tg_ii, thr_pc, thr_room,
                   cb_pending, req_pending, rooms>>
    /\ UNCHANGED nottg

\* main, lines 441-519: the roles a test_group process is started in.
TgInit ==
    /\ DfuseInit /\ SysDefault /\ PropStart
    /\ \E service \in BOOLEAN, attach \in BOOLEAN, rank \in 0..MaxRank,
          n \in 1..MaxCtx : TgStart(service, attach, rank, n)

TgMain ==
    \/ TgCreate \/ TgInitDone \/ TgRun \/ TgCheckinSend \/ TgCheckinWait
    \/ TgFini \/ TgShutdownSend \/ TgShutdownWait \/ TgDetach \/ TgJoin

\* Steps of progress thread t that crt_progress takes when it does not fail.
TgThread(t) ==
    \/ ThrCallback(t) \/ ThrCheckinLoad(t) \/ ThrCheckinStore(t)
    \/ ThrShutdown(t) \/ ThrTimeout(t) \/ ThrCheck(t)

TgNext ==
    \/ TgMain
    \/ \E t \in Ctxs : TgThread(t) \/ ThrError(t) \/ EnvCheckin(t)
    \/ EnvShutdown

TgSpec == TgInit /\ [][TgNext]_vars

\* Every thread of the process is scheduled again and again, and the client
\* that has to shut a service down does so.
TgFairSpec ==
    /\ TgSpec
    /\ WF_vars(TgMain)
    /\ \A t \in Ctxs : WF_vars(TgThread(t))
    /\ WF_vars(EnvShutdown)

\* ------------------------------------------------- test_group: properties
\* C33: in every role, once test_group_fini waits in pthread_join, every
\* progress thread leaves its loop and the joins return (`dead` is never
\* set).
C33_JoinReturns == (tg_pc = "join") ~> (tg_pc = "done")

\* C34: every check-in reply of a service carries its own room number: the
\* i-th reply carries 1082 + (i - 1), also when two progress threads run
\* echo_checkin_handler at the same time.
C34_DistinctRooms ==
    \A i \in 1..Len(rooms) : rooms[i] = FirstRoom + (i - 1)

\* -------------------------------------------------------------- srv_layout
\* The default pool properties (src/pool/srv_layout.c): the two entries of
\* pool_prop_entries_default whose value is allocated by
\* ds_pool_prop_default_init and freed by ds_pool_prop_default_fini.

\* include/daos_prop.h: the length of policy_desc_t.params.
DAOS_MEDIA_POLICY_PARAMS_MAX == 4

\* A field of an allocation that nothing was stored in yet.
Unset == 0 - 1

\* ds_sec_alloc_default_daos_pool_acl: a new allocation holding the ACL.
NewAcl == [kind |-> "acl", frees |-> 0, policy |-> "acl",
           params |-> [i \in 0..(DAOS_MEDIA_POLICY_PARAMS_MAX - 1) |-> Unset]]

ParamsWrittenButLast == 0..(DAOS_MEDIA_POLICY_PARAMS_MAX - 2)
\* ds_pool_prop_default_init, line 99: the indexes the loop stores 0 at.
ParamsWritten == 0..(DAOS_MEDIA_POLICY_PARAMS_MAX - 1)

\* ds_pool_prop_default_init, lines 95-101: the allocation pd after
\* pd->policy and the loop over pd->params.
NewPolicy ==
    [kind |-> "policy_desc_t", frees |-> 0,
     policy |-> "DAOS_MEDIA_POLICY_IO_SIZE",
     params |-> [i \in 0..(DAOS_MEDIA_POLICY_PARAMS_MAX - 1) |->
                    IF i \in ParamsWritten THEN 0 ELSE Unset]]

\* D_FREE(ptr) (include/gurt/common.h): free(ptr), which does nothing for
\* NULL, then ptr = NULL.
Freed(h, ptr) ==
    IF ptr = NullPtr THEN h ELSE [h EXCEPT ![ptr].frees = @ + 1]
AfterFree(ptr) == NullPtr

\* ds_pool_prop_default_init, lines 77-107.  acl_ok, pd_ok: the allocation
\* of line 87, of line 95, succeeds.
DsPoolPropDefaultInit(acl_ok, pd_ok) ==
    /\ prop_pc \in {"start", "finied", "finied_again"}
    /\ Len(heap) + 2 <= MaxAllocs
    /\ IF ~acl_ok
       THEN /\ acl_ptr' = NullPtr
            /\ prop_rc' = -DER_NOMEM
            /\ UNCHANGED <<policy_ptr, heap>>
       ELSE /\ acl_ptr' = Len(heap) + 1
            /\ IF ~pd_ok
               THEN /\ heap' = Append(heap, NewAcl)
                    /\ prop_rc' = -DER_NOMEM
                    /\ UNCHANGED policy_ptr
               ELSE /\ heap' = Append(Append(heap, NewAcl), NewPolicy)
                    /\ policy_ptr' = Len(heap) + 2
                    /\ prop_rc' = 0
    /\ prop_pc' = "inited"
    /\ UNCHANGED notprop

\* ds_pool_prop_default_fini, lines 109-125.
DsPoolPropDefaultFini ==
    /\ prop_pc \in {"inited", "finied", "finied_again"}
    /\ heap' = Freed(Freed(heap, acl_ptr), policy_ptr)
    /\ acl_ptr' = AfterFree(acl_ptr)
    /\ policy_ptr' = AfterFree(policy_ptr)
    /\ prop_pc' = IF prop_pc = "inited" THEN "finied" ELSE "finied_again"
    /\ UNCHANGED prop_rc
    /\ UNCHANGED notprop

PropNext ==
    \/ \E acl_ok \in BOOLEAN, pd_ok \in BOOLEAN :
          DsPoolPropDefaultInit(acl_ok, pd_ok)
    \/ DsPoolPropDefaultFini

PropSpec == Init /\ [][PropNext]_vars

\* C38: ds_pool_prop_default_init returns 0 only with both values allocated,
\* the policy DAOS_MEDIA_POLICY_IO_SIZE and every parameter 0; whatever init
\* returned, no allocation is lost or freed twice, and after
\* ds_pool_prop_default_fini, also a repeated one, both values are NULL and
\* every allocation was freed exactly once.
C38_PropInitFini ==
    /\ (prop_pc = "inited" /\ prop_rc = 0) =>
          /\ acl_ptr # NullPtr /\ policy_ptr # NullPtr
          /\ acl_ptr # policy_ptr
          /\ heap[policy_ptr].policy = "DAOS_MEDIA_POLICY_IO_SIZE"
          /\ \A i \in 0..(DAOS_MEDIA_POLICY_PARAMS_MAX - 1) :
                heap[policy_ptr].params[i] = 0
    /\ \A a \in 1..Len(heap) :
          /\ heap[a].frees <= 1
          /\ heap[a].frees = 0 => a \in {acl_ptr, policy_ptr}
    /\ prop_pc \in {"finied", "finied_again"} =>
          /\ acl_ptr = NullPtr /\ policy_ptr = NullPtr
          /\ \A a \in 1..Len(heap) : heap[a].frees = 1

\* An init that failed after the ACL was allocated, then fini twice, then an
\* init that succeeded.
C38_Witness ==
    /\ prop_pc = "inited" /\ prop_rc = 0
    /\ Len(heap) = 3
    /\ heap[1].kind = "acl" /\ heap[1].frees = 1
    /\ heap[2].kind = "acl" /\ heap[3].kind = "policy_desc_t"

\* ----------------------------------------------------------------- dfs_sys
\* The dfs_sys calls of the unit tests (src/tests/suite/dfs_sys_unit_test.c)
\* on the tree of create_simple_tree, as include/daos_fs_sys.h declares and
\* documents them and as the tests assert them; the library behind the
\* declarations is src/client/dfs/dfs_sys.c.

\* create_simple_tree, lines 26-30: the type of each entry.
Kind(p) ==
    CASE p = "/dir1" -> "S_IFDIR"
      [] p = "/dir1/file1" -> "S_IFREG"
      [] OTHER -> "S_IFLNK"

\* Lines 229-230: the value of sym1, "file1", as its bytes, and the entry it
\* names in its directory.
SymValue == <<102, 105, 108, 101, 49>>
SymTarget == "/dir1/file1"
\* Line 367: the size of the value with its null terminator.
SymSize == Len(SymValue) + 1

\* The flags the tests pass: 0 and O_NOFOLLOW.
SysFlags == {{}, {"O_NOFOLLOW"}}

AccessNeverFollows(flags) == FALSE
\* daos_fs_sys.h, lines 70-78: by default symlinks are dereferenced.
AccessFollows(flags) == "O_NOFOLLOW" \notin flags

\* dfs_sys_test_open_stat, lines 343-350: stat of sym1 gives S_IFREG with
\* flags 0 and S_IFLNK with O_NOFOLLOW.
StatFollows(flags) == "O_NOFOLLOW" \notin flags

\* dfs_sys_test_open_stat, lines 335-340: open of sym1 opens file1.
OpenFollows(flags) == "O_NOFOLLOW" \notin flags

\* The entry a call on path p acts on.
Deref(p, follow) == IF Kind(p) = "S_IFLNK" /\ follow THEN SymTarget ELSE p

SizeLeftAsPassed == buf_size
\* daos_fs_sys.h, lines 248, 314, 333: "On error, this is set to -1".
SizeOnError == 0 - 1

PunchLenShort == buf_size - 1
\* dfs_sys_test_read_write, lines 522, 548: the tests punch buf_size bytes.
PunchLen == buf_size

Min(a, b) == IF a < b THEN a ELSE b

\* daos_fs_sys.h, lines 344-347: the bytes of a file after a punch of len
\* bytes at off: extended to off when shorter; cut at off when the hole
\* reaches the end (lines 547-555); zeroes in the hole otherwise.
Punched(d, off, len) ==
    IF Len(d) < off
    THEN d \o [i \in 1..(off - Len(d)) |-> 0]
    ELSE IF off + len >= Len(d)
         THEN SubSeq(d, 1, off)
         ELSE [i \in 1..Len(d) |-> IF i > off /\ i <= off + len
                                   THEN 0 ELSE d[i]]

Called(op, p, flags, e) ==
    sys_call' = [op |-> op, path |-> p, flags |-> flags, kind |-> Kind(e)]

\* create_simple_tree, lines 20-32: dir1 with S_IWUSR | S_IRUSR, file1 with
\* no permission bit, sym1 (a link itself has the permissions: lines
\* 250-252).
create_simple_tree ==
    /\ entries = {}
    /\ entries' = SysPaths
    /\ perm' = [p \in SysPaths |-> p # "/dir1/file1"]
    /\ fdata' = <<>>
    /\ sys_call' = [op |-> "create_simple_tree", path |-> "/dir1",
                    flags |-> {}, kind |-> "S_IFDIR"]
    /\ sys_rc' = 0
    /\ UNCHANGED <<buf_size, write_buf, obj, got_size, read_buf, st_fmt>>
    /\ UNCHANGED notsys

\* delete_simple_tree, lines 37-48 (the tests close the object first).
delete_simple_tree ==
    /\ entries # {}
    /\ obj = NULL
    /\ entries' = {}
    /\ perm' = [p \in SysPaths |-> FALSE]
    /\ fdata' = <<>>
    /\ sys_call' = [op |-> "delete_simple_tree", path |-> "/dir1",
                    flags |-> {}, kind |-> "S_IFDIR"]
    /\ sys_rc' = 0
    /\ UNCHANGED <<buf_size, write_buf, obj, got_size, read_buf, st_fmt>>
    /\ UNCHANGED notsys

\* dfs_sys_access(dfs_sys_mt, p, R_OK | W_OK, flags).
dfs_sys_access(p, flags) ==
    /\ p \in entries
    /\ LET e == Deref(p, AccessFollows(flags))
       IN  /\ sys_rc' = IF perm[e] THEN 0 ELSE EPERM
           /\ Called("access", p, flags, e)
    /\ UNCHANGED <<buf_size, write_buf, entries, perm, fdata, obj, got_size,
                   read_buf, st_fmt>>
    /\ UNCHANGED notsys

\* dfs_sys_chmod(dfs_sys_mt, p, mode): symlinks are dereferenced; rw: the
\* mode has S_IWUSR | S_IRUSR.
dfs_sys_chmod(p, rw) ==
    /\ p \in entries
    /\ LET e == Deref(p, TRUE)
       IN  /\ perm' = [perm EXCEPT ![e] = rw]
           /\ Called("chmod", p, {}, e)
    /\ sys_rc' = 0
    /\ UNCHANGED <<buf_size, write_buf, entries, fdata, obj, got_size,
                   read_buf, st_fmt>>
    /\ UNCHANGED notsys

\* dfs_sys_stat(dfs_sys_mt, p, &stbuf, flags).
dfs_sys_stat(p, flags) ==
    /\ p \in entries
    /\ LET e == Deref(p, StatFollows(flags))
       IN  /\ st_fmt' = Kind(e)
           /\ Called("stat", p, flags, e)
    /\ sys_rc' = 0
    /\ UNCHANGED <<buf_size, write_buf, entries, perm, fdata, obj, got_size,
                   read_buf>>
    /\ UNCHANGED notsys

\* dfs_sys_open(dfs_sys_mt, p, mode, O_RDWR | flags, 0, 0, NULL, &obj),
\* then dfs_get_mode(obj, &mode).
dfs_sys_open(p, flags) ==
    /\ p \in entries
    /\ obj = NULL
    /\ LET e == Deref(p, OpenFollows(flags))
       IN  /\ obj' = e
           /\ st_fmt' = Kind(e)
           /\ Called("open", p, flags, e)
    /\ sys_rc' = 0
    /\ UNCHANGED <<buf_size, write_buf, entries, perm, fdata, got_size,
                   read_buf>>
    /\ UNCHANGED notsys

\* dfs_sys_close(obj).
dfs_sys_close ==
    /\ obj # NULL
    /\ obj' = NULL
    /\ Called("close", obj, {}, obj)
    /\ sys_rc' = 0
    /\ UNCHANGED <<buf_size, write_buf, entries, perm, fdata, got_size,
                   read_buf, st_fmt>>
    /\ UNCHANGED notsys

\* got_size = buf_size; dfs_sys_write(dfs_sys_mt, obj, write_buf, 0,
\* &got_size, NULL).
dfs_sys_write ==
    /\ obj # NULL
    /\ IF Kind(obj) # "S_IFREG"
       THEN /\ sys_rc' = EINVAL
            /\ got_size' = SizeOnError
            /\ UNCHANGED fdata
       ELSE /\ sys_rc' = 0
            /\ got_size' = buf_size
            /\ fdata' = write_buf \o SubSeq(fdata, buf_size + 1, Len(fdata))
    /\ Called("write", obj, {}, obj)
    /\ UNCHANGED <<buf_size, write_buf, entries, perm, obj, read_buf,
                   st_fmt>>
    /\ UNCHANGED notsys

\* got_size = buf_size; dfs_sys_read(dfs_sys_mt, obj, read_buf, 0,
\* &got_size, NULL): the bytes read replace the first bytes of read_buf.
dfs_sys_read ==
    /\ obj # NULL
    /\ IF Kind(obj) # "S_IFREG"
       THEN /\ sys_rc' = EINVAL
            /\ got_size' = SizeOnError
            /\ UNCHANGED read_buf
       ELSE LET got == Min(buf_size, Len(fdata))
            IN  /\ sys_rc' = 0
                /\ got_size' = got
                /\ read_buf' = SubSeq(fdata, 1, got)
                                  \o SubSeq(read_buf, got + 1, Len(read_buf))
    /\ Called("read", obj, {}, obj)
    /\ UNCHANGED <<buf_size, write_buf, entries, perm, fdata, obj, st_fmt>>
    /\ UNCHANGED notsys

\* dfs_sys_punch(dfs_sys_mt, p, 0, buf_size).
dfs_sys_punch(p) ==
    /\ p \in entries
    /\ LET e == Deref(p, TRUE)
       IN  /\ IF Kind(e) # "S_IFREG"
              THEN /\ sys_rc' = EINVAL
                   /\ UNCHANGED fdata
              ELSE /\ sys_rc' = 0
                   /\ fdata' = Punched(fdata, 0, PunchLen)
           /\ Called("punch", p, {}, e)
    /\ UNCHANGED <<buf_size, write_buf, entries, perm, obj, got_size,
                   read_buf, st_fmt>>
    /\ UNCHANGED notsys

\* dfs_sys_readlink(dfs_sys_mt, p, buf, &buf_size) with a buffer of n bytes
\* (0: buf is NULL): at most n bytes of the value are stored, and the size
\* is the size of the value with its terminator.
dfs_sys_readlink(p, n) ==
    /\ p \in entries
    /\ IF Kind(p) # "S_IFLNK"
       THEN /\ sys_rc' = EINVAL
            /\ got_size' = SizeOnError
            /\ UNCHANGED read_buf
       ELSE /\ sys_rc' = 0
            /\ got_size' = SymSize
            /\ read_buf' = SubSeq(SymValue \o <<0>>, 1, Min(n, SymSize))
    /\ Called("readlink", p, {}, p)
    /\ UNCHANGED <<buf_size, write_buf, entries, perm, fdata, obj, st_fmt>>
    /\ UNCHANGED notsys

\* dfs_sys_setup, and the locals of dfs_sys_test_read_write (lines 494-497,
\* 534).
SysInit ==
    /\ DfuseInit /\ TgDefault /\ PropStart
    /\ \E n \in 1..MaxBuf, v \in 1..MaxByte : SysStart(n, v)

SysNext ==
    \/ create_simple_tree \/ delete_simple_tree
    \/ \E p \in SysPaths, flags \in SysFlags :
          dfs_sys_access(p, flags) \/ dfs_sys_stat(p, flags)
              \/ dfs_sys_open(p, flags)
    \/ \E p \in SysPaths, rw \in BOOLEAN : dfs_sys_chmod(p, rw)
    \/ dfs_sys_close \/ dfs_sys_write \/ dfs_sys_read
    \/ \E p \in SysPaths : dfs_sys_punch(p)
    \/ \E p \in SysPaths, n \in {0, SymSize} : dfs_sys_readlink(p, n)

SysSpec == SysInit /\ [][SysNext]_vars

\* ---------------------------------------------------- dfs_sys: properties
\* C35: a failing dfs_sys_read, dfs_sys_write or dfs_sys_readlink leaves -1
\* in its size; read and write on an open directory and readlink on an entry
\* that is no symlink fail with EINVAL and size -1; dfs_sys_punch on a
\* directory fails with EINVAL.
C35_SizeOnFailure ==
    /\ (sys_call.op \in {"read", "write", "readlink"} /\ sys_rc # 0)
          => got_size = 0 - 1
    /\ (sys_call.op \in {"read", "write"} /\ sys_call.kind = "S_IFDIR")
          => (sys_rc = EINVAL /\ got_size = 0 - 1)
    /\ (sys_call.op = "readlink" /\ sys_call.kind # "S_IFLNK")
          => (sys_rc = EINVAL /\ got_size = 0 - 1)
    /\ (sys_call.op = "punch" /\ sys_call.kind = "S_IFDIR")
          => sys_rc = EINVAL

\* A write on the open directory failed.
C35_Witness ==
    /\ sys_call.op = "write" /\ sys_call.kind = "S_IFDIR"
    /\ obj = "/dir1"
    /\ sys_rc = EINVAL /\ got_size = 0 - 1

\* C36: a read of buf_size bytes at offset 0 that follows a write of
\* buf_size bytes at offset 0 through the same open file returns buf_size
\* and the bytes written; a read that follows dfs_sys_punch(path, 0,
\* buf_size) on that file returns 0 and size 0.
C36_WriteReadPunch ==
    [][(dfs_sys_read /\ obj = "/dir1/file1") =>
          /\ (sys_call.op = "write" /\ sys_rc = 0) =>
                /\ sys_rc' = 0
                /\ got_size' = buf_size
                /\ SubSeq(read_buf', 1, buf_size) = write_buf
          /\ (sys_call.op = "punch" /\ sys_rc = 0) =>
                /\ sys_rc' = 0
                /\ got_size' = 0]_vars

\* The file was written, read back, punched and read again through the
\* object that is still open.
C36_Witness ==
    /\ obj = "/dir1/file1"
    /\ sys_call.op = "read" /\ sys_rc = 0 /\ got_size = 0
    /\ fdata = <<>>
    /\ read_buf = write_buf

====
